---- MODULE Spec2Model ----
(***************************************************************************)
(* Model of the sequential multi-agent pipeline of src/app.py              *)
(* (real_multi_agent_collaboration and the helpers it calls).              *)
(*                                                                         *)
(* Strings are sequences of tokens: a token is a character (the query) or  *)
(* a word (templates, headings, provider texts).  f-string formatting is   *)
(* concatenation (\o), `x in s` is contiguous-subsequence search, None and *)
(* the empty string are both the empty sequence (both are falsy in         *)
(* Python; str(None) is <<"None">>).  Money is in thousandths of a dollar, *)
(* confidence in hundredths.                                               *)
(***************************************************************************)
EXTENDS Integers, Sequences, FiniteSets, TLC

(***************************************************************************)
(* Bounds                                                                  *)
(***************************************************************************)
\* number of distinct texts a provider may answer with
NumTexts == 2
\* largest elapsed wall-clock time (in whole ticks) a run may measure
MaxElapsed == 1
\* largest number of words of a query given to the classifier
MaxWords == 2
\* largest number of script runs of one browser session
MaxRuns == 3

(***************************************************************************)
(* Strings                                                                 *)
(***************************************************************************)
None == <<>>

\* Python truthiness of an Optional[str] / Optional[dict]
Truthy(x) == x # None

\* str(x) inside an f-string
Str(x) == IF x = None THEN <<"None">> ELSE x

\* `sub in s` for Python strings
Contains(s, sub) ==
    \E i \in 0..(Len(s) - Len(sub)) :
        \A j \in 1..Len(sub) : s[i + j] = sub[j]

\* s.count(sub) without the non-overlap rule (occurrence positions)
Occurrences(s, sub) ==
    Cardinality({i \in 0..(Len(s) - Len(sub)) :
                    \A j \in 1..Len(sub) : s[i + j] = sub[j]})

\* s.startswith(prefix)
StartsWith(s, prefix) ==
    /\ Len(s) >= Len(prefix)
    /\ \A j \in 1..Len(prefix) : s[j] = prefix[j]

\* s[:n]
Slice(s, n) == SubSeq(s, 1, IF Len(s) < n THEN Len(s) ELSE n)

UpperCh == <<"A","B","C","D","E","F","G","H","I","J","K","L","M",
             "N","O","P","Q","R","S","T","U","V","W","X","Y","Z">>
LowerCh == <<"a","b","c","d","e","f","g","h","i","j","k","l","m",
             "n","o","p","q","r","s","t","u","v","w","x","y","z">>

\* str.lower(), character by character
Lower(s) ==
    [i \in 1..Len(s) |->
        IF \E k \in 1..26 : UpperCh[k] = s[i]
        THEN LowerCh[CHOOSE k \in 1..26 : UpperCh[k] = s[i]]
        ELSE s[i]]

\* decimal rendering of the small naturals the report prints
IntStr(n) ==
    CASE n = 0 -> "0" [] n = 1 -> "1" [] n = 2 -> "2" [] n = 3 -> "3"
      [] n = 4 -> "4" [] n = 75 -> "75" [] n = 88 -> "88"
      [] n = 95 -> "95" [] n = 98 -> "98"

(***************************************************************************)
(* Query classification (detect_query_type)                                *)
(***************************************************************************)
\* BusinessTerms without 'startup'
BusinessTerms_NoStartup ==
    << <<"b","u","s","i","n","e","s","s"," ","i","d","e","a">>,
       <<"p","r","o","f","i","t","a","b","l","e">>,
       <<"b","u","s","i","n","e","s","s"," ","m","o","d","e","l">> >>

BusinessTerms ==
    << <<"b","u","s","i","n","e","s","s"," ","i","d","e","a">>,
       <<"s","t","a","r","t","u","p">>,
       <<"p","r","o","f","i","t","a","b","l","e">>,
       <<"b","u","s","i","n","e","s","s"," ","m","o","d","e","l">> >>

TechnicalTerms ==
    << <<"t","e","c","h","n","i","c","a","l">>,
       <<"a","r","c","h","i","t","e","c","t","u","r","e">>,
       <<"c","o","d","e">>,
       <<"i","m","p","l","e","m","e","n","t","a","t","i","o","n">>,
       <<"s","o","f","t","w","a","r","e">> >>

MarketTerms ==
    << <<"m","a","r","k","e","t">>,
       <<"i","n","d","u","s","t","r","y">>,
       <<"t","r","e","n","d">>,
       <<"c","o","m","p","e","t","i","t","o","r">>,
       <<"a","n","a","l","y","s","i","s">> >>

FinancialTerms ==
    << <<"i","n","v","e","s","t">>,
       <<"f","i","n","a","n","c","i","a","l">>,
       <<"v","a","l","u","a","t","i","o","n">>,
       <<"r","o","i">>,
       <<"p","r","o","f","i","t">> >>

\* any(term in query_lower for term in terms)
AnyTermIn(terms, query_lower) ==
    \E k \in 1..Len(terms) : Contains(query_lower, terms[k])

\* detect_query_type testing the market terms before the technical ones
detect_query_type_MarketFirst(query) ==
    LET query_lower == Lower(query)
    IN  IF AnyTermIn(BusinessTerms, query_lower) THEN "business_strategy"
        ELSE IF AnyTermIn(MarketTerms, query_lower) THEN "market_research"
        ELSE IF AnyTermIn(TechnicalTerms, query_lower) THEN "technical_analysis"
        ELSE IF AnyTermIn(FinancialTerms, query_lower) THEN "financial_analysis"
        ELSE "general"

\* detect_query_type matching the query as typed, without lower()
detect_query_type_CaseSensitive(query) ==
    IF AnyTermIn(BusinessTerms, query) THEN "business_strategy"
    ELSE IF AnyTermIn(TechnicalTerms, query) THEN "technical_analysis"
    ELSE IF AnyTermIn(MarketTerms, query) THEN "market_research"
    ELSE IF AnyTermIn(FinancialTerms, query) THEN "financial_analysis"
    ELSE "general"

detect_query_type(query) ==
    LET query_lower == Lower(query)
    IN  IF AnyTermIn(BusinessTerms, query_lower) THEN "business_strategy"
        ELSE IF AnyTermIn(TechnicalTerms, query_lower) THEN "technical_analysis"
        ELSE IF AnyTermIn(MarketTerms, query_lower) THEN "market_research"
        ELSE IF AnyTermIn(FinancialTerms, query_lower) THEN "financial_analysis"
        ELSE "general"

(***************************************************************************)
(* Prompt specialisation (get_specialized_prompts).  Each template is its  *)
(* fixed wording as word tokens followed by the raw query.                 *)
(***************************************************************************)
get_specialized_prompts(query, query_type) ==
    IF query_type = "business_strategy" THEN
        [perplexity |-> <<"Research current market data", "for:">> \o query
                        \o <<". Include specific numbers">>,
         claude     |-> <<"Provide comprehensive business analysis including:",
                          "1)", "Implementation timeline",
                          "with monthly breakdown", "for:">> \o query,
         gpt        |-> <<"Generate 3 creative variations", "to:">> \o query
                        \o <<". For each, explain">>]
    ELSE IF query_type = "technical_analysis" THEN
        [perplexity |-> <<"Research best practices", "for:">> \o query,
         claude     |-> <<"Provide detailed technical analysis including:",
                          "for:">> \o query,
         gpt        |-> <<"Suggest innovative technical approaches",
                          "for:">> \o query]
    ELSE IF query_type = "market_research" THEN
        [perplexity |-> <<"Conduct comprehensive market research including:",
                          "for:">> \o query,
         claude     |-> <<"Analyze market dynamics", "for:">> \o query,
         gpt        |-> <<"Identify underserved niches", "on:">> \o query]
    ELSE IF query_type = "financial_analysis" THEN
        [perplexity |-> <<"Research financial data", "for:">> \o query,
         claude     |-> <<"Provide detailed financial analysis including:",
                          "for:">> \o query,
         gpt        |-> <<"Suggest creative financial strategies",
                          "for:">> \o query]
    ELSE
        [perplexity |-> <<"Research and analyze:">> \o query,
         claude     |-> <<"Provide deep analysis and insights for:">> \o query,
         gpt        |-> <<"Provide creative insights and alternative perspectives on:">>
                        \o query]


(***************************************************************************)
(* Environment: configuration read at process start, provider behaviour    *)
(***************************************************************************)
Providers == {"openai", "anthropic", "perplexity", "gemini", "notion"}

\* candidate values of get_api_key("anthropic"): absent, well-formed, malformed
AnthropicKeys ==
    {None, <<"s","k","-","a","n","t","1">>, <<"p","k","-","a","n","t","1">>}

\* text a provider answers with; every second text happens to use the
\* word 'Analysis', as free text from a language model may
Text(i) ==
    IF i % 2 = 0 THEN <<"answer", IntStr(i), "Analysis">>
    ELSE <<"answer", IntStr(i)>>
Texts == {Text(i) : i \in 1..NumTexts}

\* what one dispatched provider call can do:
\*   ok        the call returns a well-formed body carrying a text
\*   raise     the client raises (network error, timeout, SDK status error)
\*   non200    requests.post returns a response whose status_code is not 200
\*   malformed the call returns, and reading the text out of the body raises
SdkOutcomes ==
    {[kind |-> "ok", text |-> t, msg |-> None] : t \in Texts}
      \cup {[kind |-> "raise", text |-> None, msg |-> <<"Connection error.">>],
            [kind |-> "malformed", text |-> None,
             msg |-> <<"list index out of range">>]}
\* an answer that repeats a text the prompt carried
Echo(quoted) == [kind |-> "ok", text |-> quoted, msg |-> None]
HttpOutcomes ==
    SdkOutcomes \cup {[kind |-> "non200", text |-> None, msg |-> None]}

(***************************************************************************)
(* State                                                                   *)
(***************************************************************************)
VARIABLES
    api_status,     \* capability registry, app.py:98
    anthropic_key,  \* value get_api_key("anthropic") yields in this process
    run,            \* locals of one real_multi_agent_collaboration call
    result,         \* its return value (meaningful once run.pc = "done")
    sessions        \* the calls of concurrently served user sessions: for
                    \* each its locals, its return value and the provider
                    \* outcomes it was given (used by SpecConcurrent only)
VARIABLES
    session_state,  \* st.session_state of one browser session
    script          \* what surrounds it: the process globals, the users
                    \* table, the number of script runs of the session,
                    \* the widget event the last run handled and the
                    \* message it showed (used by SpecSession only)

vars == <<api_status, anthropic_key, run, result, sessions,
          session_state, script>>

NoneDict == [agent |-> None, model |-> None, response |-> None, cost |-> 0]
NoCall == [stage |-> "none", provider |-> "none", prompt |-> None,
           api_key |-> None]

\* a provider call leaving the process
Call(stage, provider, prompt, key) ==
    [stage |-> stage, provider |-> provider, prompt |-> prompt,
     api_key |-> key]

Dispatch(r, call, pc) ==
    [r EXCEPT !.inflight = call,
              !.dispatched = Append(@, call),
              !.pc = pc]

\* the call in flight comes back with outcome o
Complete(r, o) ==
    [r EXCEPT !.inflight = NoCall,
              !.returned = Append(@, o.kind)]

\* RecordStage inserting at the front of the lists
RecordStage_Prepend(r, res) ==
    [r EXCEPT !.agents_used = <<res.agent>> \o @,
              !.models_used = <<res.model>> \o @,
              !.responses = <<res.response>> \o @,
              !.total_cost = @ + res.cost]

\* RecordStage leaving models_used out
RecordStage_NoModel(r, res) ==
    [r EXCEPT !.agents_used = Append(@, res.agent),
              !.responses = Append(@, res.response),
              !.total_cost = @ + res.cost]

\* RecordStage leaving the cost out
RecordStage_NoCost(r, res) ==
    [r EXCEPT !.agents_used = Append(@, res.agent),
              !.models_used = Append(@, res.model),
              !.responses = Append(@, res.response)]

\* the four statements that record a successful stage
RecordStage(r, res) ==
    [r EXCEPT !.agents_used = Append(@, res.agent),
              !.models_used = Append(@, res.model),
              !.responses = Append(@, res.response),
              !.total_cost = @ + res.cost]

\* agent_errors.append(f"{source}: {str(e)}")
RecordError(r, source, msg) ==
    [r EXCEPT !.agent_errors = Append(@, <<source>> \o msg)]

\* locals after lines 202-216
InitRun(query) ==
    [pc |-> "stage1",
     query |-> query,
     query_type |-> detect_query_type(query),
     specialized_prompts |->
         get_specialized_prompts(query, detect_query_type(query)),
     agents_used |-> <<>>,
     models_used |-> <<>>,
     responses |-> <<>>,
     agent_errors |-> <<>>,
     total_cost |-> 0,
     research_output |-> None,
     analysis_output |-> None,
     creative_output |-> None,
     research_result |-> NoneDict,
     analysis_result |-> NoneDict,
     creative_result |-> NoneDict,
     critique_text |-> None,
     \* the provider interface as seen from outside the process: the call
     \* in flight, every call dispatched so far, and how each came back
     inflight |-> NoCall,
     dispatched |-> <<>>,
     returned |-> <<>>]

(***************************************************************************)
(* STAGE 1: research (call_perplexity_sync)                                *)
(***************************************************************************)
\* PerplexityDict carrying the label of the analysis agent
PerplexityDict_AnalysisLabel(text) ==
    [agent |-> <<"Claude", "Analysis", "Agent">>,
     model |-> <<"sonar-pro">>,
     response |-> <<"**", "Research", "Findings", ":**">> \o text,
     cost |-> 2]


PerplexityDict(text) ==
    [agent |-> <<"Perplexity", "Research", "Agent">>,
     model |-> <<"sonar-pro">>,
     response |-> <<"**", "Research", "Findings", ":**">> \o text,
     cost |-> 2]

\* Stage1Dispatch that does not wait for the request to come back
Stage1Dispatch_NoWait(r) ==
    IF ~api_status["perplexity"]
    THEN [r EXCEPT !.pc = "stage2"]
    ELSE Dispatch(r, Call("research", "perplexity",
                          r.specialized_prompts.perplexity, None),
                  "stage2")

Stage1Dispatch(r) ==
    IF ~api_status["perplexity"]
    THEN [r EXCEPT !.pc = "stage2"]
    ELSE Dispatch(r, Call("research", "perplexity",
                          r.specialized_prompts.perplexity, None),
                  "await_research")

\* ResearchReturn sending the request a second time after a first failure
ResearchReturn_Retry(r, o) ==
    LET done == [Complete(r, o) EXCEPT !.pc = "stage2"]
    IN  IF o.kind = "ok"
        THEN LET res == PerplexityDict(o.text)
             IN  [RecordStage(done, res) EXCEPT
                      !.research_result = res,
                      !.research_output = res.response]
        ELSE IF o.kind = "non200"
        THEN done
        ELSE IF r.agent_errors = <<>>
        THEN [RecordError(done, "Perplexity:", o.msg) EXCEPT !.pc = "stage1"]
        ELSE RecordError(done, "Perplexity:", o.msg)

ResearchReturn(r, o) ==
    LET done == [Complete(r, o) EXCEPT !.pc = "stage2"]
    IN  IF o.kind = "ok"
        THEN LET res == PerplexityDict(o.text)
             IN  [RecordStage(done, res) EXCEPT
                      !.research_result = res,
                      !.research_output = res.response]
        ELSE IF o.kind = "non200"
        THEN done
        ELSE RecordError(done, "Perplexity:", o.msg)

(***************************************************************************)
(* STAGE 2: analysis (call_claude_sync)                                    *)
(***************************************************************************)
ClaudeDict(text) ==
    [agent |-> <<"Claude", "Analysis", "Agent">>,
     model |-> <<"claude-sonnet-4.5">>,
     response |-> <<"**", "Deep", "Analysis", ":**">> \o text,
     cost |-> 3]

\* prompt with the context appended under its heading
WithContext(prompt, context) ==
    IF Truthy(context)
    THEN prompt \o <<"\n\n", "**Context from previous analysis:**", "\n">>
                \o context
    ELSE prompt

\* Stage2Dispatch without the check of the key's format
Stage2Dispatch_NoFormatCheck(r) ==
    LET analysis_context ==
            IF Truthy(r.research_output) THEN Str(r.research_output) ELSE None
        api_key == anthropic_key
    IN  IF ~api_status["anthropic"]
        THEN [r EXCEPT !.pc = "stage3"]
        ELSE IF ~Truthy(api_key)
        THEN [RecordError(r, "Claude:", <<"No API key found in environment">>)
                 EXCEPT !.pc = "stage3"]
        ELSE Dispatch(r, Call("analysis", "anthropic",
                              WithContext(r.specialized_prompts.claude,
                                          analysis_context),
                              api_key),
                      "await_analysis")

\* Stage2Dispatch leaving the research findings out of the prompt
Stage2Dispatch_NoContext(r) ==
    LET api_key == anthropic_key
    IN  IF ~api_status["anthropic"]
        THEN [r EXCEPT !.pc = "stage3"]
        ELSE IF ~Truthy(api_key)
        THEN [RecordError(r, "Claude:", <<"No API key found in environment">>)
                 EXCEPT !.pc = "stage3"]
        ELSE IF ~StartsWith(api_key, <<"s","k","-">>)
        THEN [RecordError(r, "Claude:",
                          <<"API key format invalid (should start with 'sk-', got '">>
                            \o Slice(api_key, 5) \o <<"...')">>)
                 EXCEPT !.pc = "stage3"]
        ELSE Dispatch(r, Call("analysis", "anthropic",
                              r.specialized_prompts.claude, api_key),
                      "await_analysis")

\* Stage2Dispatch reporting an unavailable provider as a failure
Stage2Dispatch_ReportUnavailable(r) ==
    LET analysis_context ==
            IF Truthy(r.research_output) THEN Str(r.research_output) ELSE None
        api_key == anthropic_key
    IN  IF ~api_status["anthropic"]
        THEN [RecordError(r, "Claude:", <<"provider not available">>)
                 EXCEPT !.pc = "stage3"]
        ELSE IF ~Truthy(api_key)
        THEN [RecordError(r, "Claude:", <<"No API key found in environment">>)
                 EXCEPT !.pc = "stage3"]
        ELSE IF ~StartsWith(api_key, <<"s","k","-">>)
        THEN [RecordError(r, "Claude:",
                          <<"API key format invalid (should start with 'sk-', got '">>
                            \o Slice(api_key, 5) \o <<"...')">>)
                 EXCEPT !.pc = "stage3"]
        ELSE Dispatch(r, Call("analysis", "anthropic",
                              WithContext(r.specialized_prompts.claude,
                                          analysis_context),
                              api_key),
                      "await_analysis")

Stage2Dispatch(r) ==
    LET analysis_context ==
            IF Truthy(r.research_output) THEN Str(r.research_output) ELSE None
        api_key == anthropic_key
    IN  IF ~api_status["anthropic"]
        THEN [r EXCEPT !.pc = "stage3"]
        ELSE IF ~Truthy(api_key)
        THEN [RecordError(r, "Claude:", <<"No API key found in environment">>)
                 EXCEPT !.pc = "stage3"]
        ELSE IF ~StartsWith(api_key, <<"s","k","-">>)
        THEN [RecordError(r, "Claude:",
                          <<"API key format invalid (should start with 'sk-', got '">>
                            \o Slice(api_key, 5) \o <<"...')">>)
                 EXCEPT !.pc = "stage3"]
        ELSE Dispatch(r, Call("analysis", "anthropic",
                              WithContext(r.specialized_prompts.claude,
                                          analysis_context),
                              api_key),
                      "await_analysis")

AnalysisReturn(r, o) ==
    LET done == Complete(r, o)
    IN  IF o.kind = "ok"
        THEN LET res == ClaudeDict(o.text)
             IN  [RecordStage(done, res) EXCEPT
                      !.analysis_result = res,
                      !.analysis_output = res.response,
                      !.pc = "stage25"]
        ELSE [RecordError(done, "Claude:", o.msg) EXCEPT !.pc = "stage3"]

(***************************************************************************)
(* STAGE 2.5 / 2.6: self-critique and refinement                           *)
(***************************************************************************)
Stage25Dispatch(r) ==
    IF api_status["anthropic"] /\ Truthy(r.analysis_output)
    THEN LET api_key == anthropic_key
         IN  IF Truthy(api_key)
             THEN LET critique_prompt ==
                          <<"Review the following analysis for logical flaws",
                            "\n\n">> \o Str(r.analysis_output)
                            \o <<"\n\n", "Provide constructive criticism:">>
                  IN  Dispatch(r, Call("critique", "anthropic",
                                       critique_prompt, api_key),
                               "await_critique")
             ELSE [r EXCEPT !.pc = "stage3"]
    ELSE [r EXCEPT !.pc = "stage3"]

\* CritiqueReturn going on to the refinement after an unreadable critique
CritiqueReturn_RefineAnyway(r, o) ==
    LET done == Complete(r, o)
        charged == [done EXCEPT !.total_cost = @ + 3]
    IN  IF o.kind = "ok"
        THEN [charged EXCEPT !.critique_text = o.text, !.pc = "stage26"]
        ELSE IF o.kind = "malformed"
        THEN [RecordError(charged, "Self-Critique:", o.msg)
                 EXCEPT !.pc = "stage26"]
        ELSE [RecordError(done, "Self-Critique:", o.msg)
                 EXCEPT !.pc = "stage3"]

\* CritiqueReturn charging the call whether or not it returned
CritiqueReturn_ChargeAlways(r, o) ==
    LET charged == [Complete(r, o) EXCEPT !.total_cost = @ + 3]
    IN  IF o.kind = "ok"
        THEN [charged EXCEPT !.critique_text = o.text, !.pc = "stage26"]
        ELSE [RecordError(charged, "Self-Critique:", o.msg)
                 EXCEPT !.pc = "stage3"]

\* lines 358-365: the charge follows the call, reading the body follows
\* the charge; any exception goes to the handler of line 391
CritiqueReturn(r, o) ==
    LET done == Complete(r, o)
        charged == [done EXCEPT !.total_cost = @ + 3]
    IN  IF o.kind = "ok"
        THEN [charged EXCEPT !.critique_text = o.text, !.pc = "stage26"]
        ELSE IF o.kind = "malformed"
        THEN [RecordError(charged, "Self-Critique:", o.msg)
                 EXCEPT !.pc = "stage3"]
        ELSE [RecordError(done, "Self-Critique:", o.msg)
                 EXCEPT !.pc = "stage3"]

Stage26Dispatch(r) ==
    LET refinement_prompt ==
            <<"Based on this critique of your analysis, revise and improve it:",
              "\n\n", "ORIGINAL ANALYSIS:", "\n">> \o Str(r.analysis_output)
              \o <<"\n\n", "CRITIQUE:", "\n">> \o Str(r.critique_text)
              \o <<"\n\n", "Provide a refined analysis">>
    IN  Dispatch(r, Call("refine", "anthropic", refinement_prompt,
                         anthropic_key),
                 "await_refine")

\* ReplaceLast adding the value after the last entry
ReplaceLast_Append(seq, value) == Append(seq, value)

\* responses[-1] = value
ReplaceLast(seq, value) == [seq EXCEPT ![Len(seq)] = value]

\* RefineReturn overwriting the entry before the refined text is read
RefineReturn_ReplaceFirst(r, o) ==
    LET done == [Complete(r, o) EXCEPT !.pc = "stage3"]
        charged == [done EXCEPT !.total_cost = @ + 3]
        refined == <<"**", "Deep", "Analysis", "(Refined)", ":**">> \o o.text
        replaced == [charged EXCEPT !.analysis_output = refined,
                                    !.responses = ReplaceLast(@, refined)]
    IN  IF o.kind = "ok" THEN replaced
        ELSE IF o.kind = "malformed"
        THEN RecordError(replaced, "Self-Critique:", o.msg)
        ELSE RecordError(done, "Self-Critique:", o.msg)

\* RefineReturn keeping the heading of the unrefined analysis
RefineReturn_SameHeading(r, o) ==
    LET done == [Complete(r, o) EXCEPT !.pc = "stage3"]
        charged == [done EXCEPT !.total_cost = @ + 3]
    IN  IF o.kind = "ok"
        THEN LET refined == <<"**", "Deep", "Analysis", ":**">> \o o.text
             IN  [charged EXCEPT !.analysis_output = refined,
                                 !.responses = ReplaceLast(@, refined)]
        ELSE IF o.kind = "malformed"
        THEN RecordError(charged, "Self-Critique:", o.msg)
        ELSE RecordError(done, "Self-Critique:", o.msg)

\* lines 378-392
\* RefineReturn charging the call only once its text has been read
RefineReturn_ChargeAfterRead(r, o) ==
    LET done == [Complete(r, o) EXCEPT !.pc = "stage3"]
        charged == [done EXCEPT !.total_cost = @ + 3]
    IN  IF o.kind = "ok"
        THEN LET refined ==
                     <<"**", "Deep", "Analysis", "(Refined)", ":**">> \o o.text
             IN  [charged EXCEPT !.analysis_output = refined,
                                 !.responses = ReplaceLast(@, refined)]
        ELSE RecordError(done, "Self-Critique:", o.msg)


RefineReturn(r, o) ==
    LET done == [Complete(r, o) EXCEPT !.pc = "stage3"]
        charged == [done EXCEPT !.total_cost = @ + 3]
    IN  IF o.kind = "ok"
        THEN LET refined ==
                     <<"**", "Deep", "Analysis", "(Refined)", ":**">> \o o.text
             IN  [charged EXCEPT !.analysis_output = refined,
                                 !.responses = ReplaceLast(@, refined)]
        ELSE IF o.kind = "malformed"
        THEN RecordError(charged, "Self-Critique:", o.msg)
        ELSE RecordError(done, "Self-Critique:", o.msg)

(***************************************************************************)
(* STAGE 3: creative (call_openai_sync)                                    *)
(***************************************************************************)
OpenAIDict(text) ==
    [agent |-> <<"GPT", "Creative", "Agent">>,
     model |-> <<"gpt-4o">>,
     response |-> <<"**", "Creative", "Perspective", ":**">> \o text,
     cost |-> 15]

\* Stage3Dispatch handing on the analysis as first produced
Stage3Dispatch_Unrefined(r) ==
    LET analysis == r.analysis_result.response
        creative_context ==
            IF Truthy(r.research_output) /\ Truthy(analysis)
            THEN <<"RESEARCH:", "\n">> \o Str(r.research_output)
                   \o <<"\n\n", "ANALYSIS:", "\n">> \o Str(analysis)
            ELSE IF Truthy(r.research_output) THEN r.research_output
            ELSE IF Truthy(analysis) THEN analysis
            ELSE None
    IN  IF ~api_status["openai"]
        THEN [r EXCEPT !.pc = "stage4"]
        ELSE Dispatch(r, Call("creative", "openai",
                              WithContext(r.specialized_prompts.gpt,
                                          creative_context),
                              None),
                      "await_creative")

Stage3Dispatch(r) ==
    LET creative_context ==
            IF Truthy(r.research_output) /\ Truthy(r.analysis_output)
            THEN <<"RESEARCH:", "\n">> \o Str(r.research_output)
                   \o <<"\n\n", "ANALYSIS:", "\n">> \o Str(r.analysis_output)
            ELSE IF Truthy(r.research_output) THEN r.research_output
            ELSE IF Truthy(r.analysis_output) THEN r.analysis_output
            ELSE None
    IN  IF ~api_status["openai"]
        THEN [r EXCEPT !.pc = "stage4"]
        ELSE Dispatch(r, Call("creative", "openai",
                              WithContext(r.specialized_prompts.gpt,
                                          creative_context),
                              None),
                      "await_creative")

\* CreativeReturn without the try/except: the exception leaves the function
CreativeReturn_NoCatch(r, o) ==
    IF o.kind = "ok"
    THEN LET res == OpenAIDict(o.text)
         IN  [RecordStage(Complete(r, o), res) EXCEPT
                  !.creative_result = res,
                  !.creative_output = res.response,
                  !.pc = "stage4"]
    ELSE [Complete(r, o) EXCEPT !.pc = "raised"]

CreativeReturn(r, o) ==
    LET done == [Complete(r, o) EXCEPT !.pc = "stage4"]
    IN  IF o.kind = "ok"
        THEN LET res == OpenAIDict(o.text)
             IN  [RecordStage(done, res) EXCEPT
                      !.creative_result = res,
                      !.creative_output = res.response]
        ELSE RecordError(done, "OpenAI:", o.msg)

(***************************************************************************)
(* STAGE 4: synthesis                                                      *)
(***************************************************************************)
SynthesisDict(text) ==
    [agent |-> <<"Claude", "Synthesis", "Agent">>,
     model |-> <<"claude-sonnet-4.5">>,
     response |-> <<"**", "Strategic", "Synthesis", ":**">> \o text,
     cost |-> 3]

\* Stage4Dispatch asking for one prior response instead of two
Stage4Dispatch_AtLeastOne(r) ==
    IF Len(r.responses) >= 1
    THEN LET synthesis_context ==
                 <<"RESEARCH:", "\n">> \o Str(r.research_output)
                   \o <<"\n\n", "ANALYSIS:", "\n">> \o Str(r.analysis_output)
                   \o <<"\n\n", "CREATIVE ALTERNATIVES:", "\n">>
                   \o Str(r.creative_output)
             api_key == anthropic_key
         IN  IF api_status["anthropic"] /\ Truthy(api_key)
             THEN Dispatch(r, Call("synthesis", "anthropic",
                                   <<"Synthesize the following analyses", "for:">>
                                     \o r.query \o <<"\n\n">>
                                     \o synthesis_context
                                     \o <<"\n\n", "Provide:">>,
                                   api_key),
                           "await_synthesis")
             ELSE [r EXCEPT !.pc = "assemble"]
    ELSE [r EXCEPT !.pc = "assemble"]

Stage4Dispatch(r) ==
    IF Len(r.responses) >= 2
    THEN LET synthesis_context ==
                 <<"RESEARCH:", "\n">> \o Str(r.research_output)
                   \o <<"\n\n", "ANALYSIS:", "\n">> \o Str(r.analysis_output)
                   \o <<"\n\n", "CREATIVE ALTERNATIVES:", "\n">>
                   \o Str(r.creative_output)
             api_key == anthropic_key
         IN  IF api_status["anthropic"] /\ Truthy(api_key)
             THEN LET synthesis_prompt ==
                          <<"Synthesize the following analyses", "for:">>
                            \o r.query \o <<"\n\n">> \o synthesis_context
                            \o <<"\n\n", "Provide:">>
                  IN  Dispatch(r, Call("synthesis", "anthropic",
                                       synthesis_prompt, api_key),
                               "await_synthesis")
             ELSE [r EXCEPT !.pc = "assemble"]
    ELSE [r EXCEPT !.pc = "assemble"]

\* SynthesisReturn without the except clause: a failure leaves the function
SynthesisReturn_NoCatch(r, o) ==
    IF o.kind = "ok"
    THEN RecordStage([Complete(r, o) EXCEPT !.pc = "assemble"],
                     SynthesisDict(o.text))
    ELSE [Complete(r, o) EXCEPT !.pc = "raised"]


SynthesisReturn(r, o) ==
    LET done == [Complete(r, o) EXCEPT !.pc = "assemble"]
    IN  IF o.kind = "ok"
        THEN RecordStage(done, SynthesisDict(o.text))
        ELSE RecordError(done, "Synthesis:", o.msg)

(***************************************************************************)
(* Report assembly and return value (lines 451-523)                        *)
(***************************************************************************)
RECURSIVE Join(_, _)
\* sep.join(parts)
Join(sep, parts) ==
    IF parts = <<>> THEN <<>>
    ELSE IF Len(parts) = 1 THEN parts[1]
    ELSE parts[1] \o sep \o Join(sep, Tail(parts))

\* Confidence with the thresholds shifted by one
Confidence_Shifted(n) ==
    IF n > 4 THEN 98 ELSE IF n > 3 THEN 95 ELSE IF n > 2 THEN 88 ELSE 75

\* the confidence ladder as a percentage / in hundredths
Confidence(n) ==
    IF n >= 4 THEN 98 ELSE IF n >= 3 THEN 95 ELSE IF n >= 2 THEN 88 ELSE 75

\* any(word in r for r in responses)
AnyResponseHas(responses, word) ==
    \E i \in 1..Len(responses) : Contains(responses[i], <<word>>)

\* error_summary listing only the first recorded failure
error_summary_FirstOnly(r) ==
    IF Truthy(r.agent_errors)
    THEN <<"\n\n", "**Agent Status:**", "\n",
           "* ", IntStr(Len(r.agents_used)), " of ", IntStr(4),
           " agents responded successfully", "\n">>
           \o <<"* ">> \o r.agent_errors[1] \o <<"\n">>
    ELSE <<>>


error_summary(r) ==
    IF Truthy(r.agent_errors)
    THEN <<"\n\n", "**Agent Status:**", "\n",
           "* ", IntStr(Len(r.agents_used)), " of ", IntStr(4),
           " agents responded successfully", "\n">>
           \o Join(<<>>, [i \in 1..Len(r.agent_errors) |->
                             <<"* ">> \o r.agent_errors[i] \o <<"\n">>])
    ELSE <<>>

executive_summary_points(r) ==
    IF Len(r.responses) >= 2
    THEN SelectSeq(
           << <<"Multi-perspective analysis from ",
                IntStr(Len(r.agents_used)), " expert AI systems">>,
              IF AnyResponseHas(r.responses, "Research")
              THEN <<"Research-backed with current market data and citations">>
              ELSE <<>>,
              IF AnyResponseHas(r.responses, "Analysis")
              THEN <<"Detailed implementation strategies and profit projections">>
              ELSE <<>>,
              IF AnyResponseHas(r.responses, "Creative")
              THEN <<"Creative alternatives and innovative approaches">>
              ELSE <<>> >>,
           LAMBDA p : p # <<>>)
    ELSE <<>>

\* the line the key-takeaways loop adds for one agent label
\* takeaway_line without the branch of the synthesis agent
takeaway_line_NoSynthesis(agent) ==
    IF Contains(agent, <<"Research">>)
    THEN <<"- **Research Layer**", "\n">>
    ELSE IF Contains(agent, <<"Analysis">>)
    THEN <<"- **Analytical Layer**", "\n">>
    ELSE IF Contains(agent, <<"Creative">>)
    THEN <<"- **Creative Layer**", "\n">>
    ELSE <<>>


takeaway_line(agent) ==
    IF Contains(agent, <<"Research">>)
    THEN <<"- **Research Layer**", "\n">>
    ELSE IF Contains(agent, <<"Analysis">>)
    THEN <<"- **Analytical Layer**", "\n">>
    ELSE IF Contains(agent, <<"Creative">>)
    THEN <<"- **Creative Layer**", "\n">>
    ELSE IF Contains(agent, <<"Synthesis">>)
    THEN <<"- **Synthesis Layer**", "\n">>
    ELSE <<>>

fallback_body(query) ==
    <<"### Analysis: ">> \o query
      \o <<"\n\n", "Providing enhanced analysis through multi-agent collaboration.",
           "\n\n", "**Approach:**">>

\* the report built when at least one stage succeeded (lines 462-503)
structured_response(r) ==
         LET points == Slice(executive_summary_points(r), 3)
             sections == [i \in 1..Len(r.responses) |->
                             r.responses[i] \o <<"\n\n", "---", "\n">>]
         IN  <<"## Executive Summary", "\n\n">>
               \o Join(<<>>, [i \in 1..Len(points) |-> points[i] \o <<"\n">>])
               \o <<"\n", "**Query Type Detected:** ", r.query_type, "\n">>
               \o <<"**Analysis Confidence:** ",
                    IntStr(Confidence(Len(r.responses))), "%", "\n">>
               \o <<"\n", "---", "\n\n", "## Detailed Analysis", "\n\n">>
               \o Join(<<"\n">>, sections)
               \o <<"\n\n", "## Key Takeaways", "\n\n">>
               \o <<"This analysis combines **", IntStr(Len(r.agents_used)),
                    " AI perspectives**", "\n\n">>
               \o Join(<<>>, [i \in 1..Len(r.agents_used) |->
                                 takeaway_line(r.agents_used[i])])
               \o error_summary(r)

\* final_response falling back only when nothing was recorded at all
final_response_FallbackWhenClean(r) ==
    IF Truthy(r.responses) \/ Truthy(r.agent_errors)
    THEN structured_response(r)
    ELSE fallback_body(r.query)

final_response(r) ==
    IF Truthy(r.responses)
    THEN structured_response(r)
    ELSE fallback_body(r.query)

\* Optional[list]: None is not the empty list
NoneList == [is_none |-> TRUE, list |-> <<>>]
SomeList(l) == [is_none |-> FALSE, list |-> l]

\* agents_available leaving the anthropic entry out as well
agents_available_NoAnthropic ==
    Cardinality({k \in Providers :
                    api_status[k] /\ k \notin {"notion", "gemini", "anthropic"}})


agents_available ==
    Cardinality({k \in Providers :
                    api_status[k] /\ k \notin {"notion", "gemini"}})

\* ReturnValue handing the lists back as they are, without placeholders
ReturnValue_NoPlaceholder(r, elapsed) ==
    [success |-> TRUE,
     response |-> final_response(r),
     collaboration_details |->
        [agents_used |-> r.agents_used,
         models_used |-> r.models_used,
         processing_time |-> elapsed,
         total_cost |-> r.total_cost,
         confidence |-> Confidence(Len(r.responses)),
         consensus_method |-> IF Truthy(r.responses) THEN "real_multi_agent"
                              ELSE "enhanced_fallback",
         agents_available |-> agents_available,
         agents_successful |-> Len(r.agents_used),
         errors |-> IF Truthy(r.agent_errors) THEN SomeList(r.agent_errors)
                    ELSE NoneList]]


\* ReturnValue handing back agent_errors as it is, an empty list included
ReturnValue_EmptyErrors(r, elapsed) ==
    [success |-> TRUE,
     response |-> final_response(r),
     collaboration_details |->
        [agents_used |-> IF Truthy(r.agents_used) THEN r.agents_used
                         ELSE << <<"Enhanced", "Reasoning", "Agent">> >>,
         models_used |-> IF Truthy(r.models_used) THEN r.models_used
                         ELSE << <<"Multi-Model Synthesis">> >>,
         processing_time |-> elapsed,
         total_cost |-> r.total_cost,
         confidence |-> Confidence(Len(r.responses)),
         consensus_method |-> IF Truthy(r.responses) THEN "real_multi_agent"
                              ELSE "enhanced_fallback",
         agents_available |-> agents_available,
         agents_successful |-> Len(r.agents_used),
         errors |-> SomeList(r.agent_errors)]]


\* ReturnValue printing the elapsed time at the end of the report
ReturnValue_TimedReport(r, elapsed) ==
    [success |-> TRUE,
     response |-> final_response(r) \o <<IntStr(elapsed)>>,
     collaboration_details |->
        [agents_used |-> IF Truthy(r.agents_used) THEN r.agents_used
                         ELSE << <<"Enhanced", "Reasoning", "Agent">> >>,
         models_used |-> IF Truthy(r.models_used) THEN r.models_used
                         ELSE << <<"Multi-Model Synthesis">> >>,
         processing_time |-> elapsed,
         total_cost |-> r.total_cost,
         confidence |-> Confidence(Len(r.responses)),
         consensus_method |-> IF Truthy(r.responses) THEN "real_multi_agent"
                              ELSE "enhanced_fallback",
         agents_available |-> agents_available,
         agents_successful |-> Len(r.agents_used),
         errors |-> IF Truthy(r.agent_errors) THEN SomeList(r.agent_errors)
                    ELSE NoneList]]


ReturnValue(r, elapsed) ==
    [success |-> TRUE,
     response |-> final_response(r),
     collaboration_details |->
        [agents_used |-> IF Truthy(r.agents_used) THEN r.agents_used
                         ELSE << <<"Enhanced", "Reasoning", "Agent">> >>,
         models_used |-> IF Truthy(r.models_used) THEN r.models_used
                         ELSE << <<"Multi-Model Synthesis">> >>,
         processing_time |-> elapsed,
         total_cost |-> r.total_cost,
         confidence |-> Confidence(Len(r.responses)),
         consensus_method |-> IF Truthy(r.responses) THEN "real_multi_agent"
                              ELSE "enhanced_fallback",
         agents_available |-> agents_available,
         agents_successful |-> Len(r.agents_used),
         errors |-> IF Truthy(r.agent_errors) THEN SomeList(r.agent_errors)
                    ELSE NoneList]]

\* value of `result` while the call has not returned
NotReturned ==
    [success |-> FALSE,
     response |-> None,
     collaboration_details |->
        [agents_used |-> <<>>, models_used |-> <<>>, processing_time |-> 0,
         total_cost |-> 0, confidence |-> 0, consensus_method |-> "none",
         agents_available |-> 0, agents_successful |-> 0,
         errors |-> NoneList]]

(***************************************************************************)
(* Specification                                                           *)
(***************************************************************************)
Queries ==
    { <<"M","y"," ","S","t","a","r","t","u","p">>,
      <<"h","i">> }

Init ==
    /\ api_status \in [Providers -> BOOLEAN]
    \* gemini and notion are read by the availability count alone, which
    \* skips both alike; the two entries are switched together
    /\ api_status["notion"] = api_status["gemini"]
    /\ anthropic_key \in AnthropicKeys
    \* api_status['anthropic'] = ANTHROPIC_AVAILABLE and bool(anthropic_key)
    /\ api_status["anthropic"] => Truthy(anthropic_key)
    /\ \E q \in Queries : run = InitRun(q)
    /\ result = NotReturned
    /\ sessions = <<>>
    /\ session_state = <<>>
    /\ script = <<>>

Stage1Research ==
    /\ run.pc = "stage1"
    /\ run' = Stage1Dispatch(run)
    /\ UNCHANGED <<api_status, anthropic_key, result, sessions, session_state, script>>

\* ResearchReturns marking the provider unavailable once its call failed
ResearchReturns_MarksDown ==
    /\ run.pc = "await_research"
    /\ \E o \in HttpOutcomes :
           /\ run' = ResearchReturn(run, o)
           /\ api_status' = IF o.kind = "ok" THEN api_status
                            ELSE [api_status EXCEPT !["perplexity"] = FALSE]
    /\ UNCHANGED <<anthropic_key, result, sessions, session_state, script>>


ResearchReturns ==
    /\ run.pc = "await_research"
    /\ \E o \in HttpOutcomes : run' = ResearchReturn(run, o)
    /\ UNCHANGED <<api_status, anthropic_key, result, sessions, session_state, script>>

Stage2Analysis ==
    /\ run.pc = "stage2"
    /\ run' = Stage2Dispatch(run)
    /\ UNCHANGED <<api_status, anthropic_key, result, sessions, session_state, script>>

AnalysisReturns ==
    /\ run.pc = "await_analysis"
    /\ \E o \in SdkOutcomes : run' = AnalysisReturn(run, o)
    /\ UNCHANGED <<api_status, anthropic_key, result, sessions, session_state, script>>

Stage25Critique ==
    /\ run.pc = "stage25"
    /\ run' = Stage25Dispatch(run)
    /\ UNCHANGED <<api_status, anthropic_key, result, sessions, session_state, script>>

CritiqueReturns ==
    /\ run.pc = "await_critique"
    /\ \E o \in SdkOutcomes : run' = CritiqueReturn(run, o)
    /\ UNCHANGED <<api_status, anthropic_key, result, sessions, session_state, script>>

Stage26Refine ==
    /\ run.pc = "stage26"
    /\ run' = Stage26Dispatch(run)
    /\ UNCHANGED <<api_status, anthropic_key, result, sessions, session_state, script>>

RefineReturns ==
    /\ run.pc = "await_refine"
    /\ \E o \in SdkOutcomes \cup {Echo(run.analysis_output)} :
           run' = RefineReturn(run, o)
    /\ UNCHANGED <<api_status, anthropic_key, result, sessions, session_state, script>>

Stage3Creative ==
    /\ run.pc = "stage3"
    /\ run' = Stage3Dispatch(run)
    /\ UNCHANGED <<api_status, anthropic_key, result, sessions, session_state, script>>

CreativeReturns ==
    /\ run.pc = "await_creative"
    /\ \E o \in SdkOutcomes : run' = CreativeReturn(run, o)
    /\ UNCHANGED <<api_status, anthropic_key, result, sessions, session_state, script>>

Stage4Synthesis ==
    /\ run.pc = "stage4"
    /\ run' = Stage4Dispatch(run)
    /\ UNCHANGED <<api_status, anthropic_key, result, sessions, session_state, script>>

SynthesisReturns ==
    /\ run.pc = "await_synthesis"
    /\ \E o \in SdkOutcomes : run' = SynthesisReturn(run, o)
    /\ UNCHANGED <<api_status, anthropic_key, result, sessions, session_state, script>>

AssembleAndReturn ==
    /\ run.pc = "assemble"
    /\ \E elapsed \in 0..MaxElapsed : result' = ReturnValue(run, elapsed)
    /\ run' = [run EXCEPT !.pc = "done"]
    /\ UNCHANGED <<api_status, anthropic_key, sessions, session_state, script>>

Next ==
    \/ Stage1Research
    \/ ResearchReturns
    \/ Stage2Analysis
    \/ AnalysisReturns
    \/ Stage25Critique
    \/ CritiqueReturns
    \/ Stage26Refine
    \/ RefineReturns
    \/ Stage3Creative
    \/ CreativeReturns
    \/ Stage4Synthesis
    \/ SynthesisReturns
    \/ AssembleAndReturn

Spec == Init /\ [][Next]_vars

\* the function body is straight-line code, so a step that can be taken is
\* taken, and every provider call in flight comes back in the end
Fairness == WF_vars(Next)

\* the entries of the registry the pipeline never reads are left off
InitLive ==
    /\ Init
    /\ ~api_status["gemini"]
    /\ ~api_status["notion"]

SpecLive == InitLive /\ [][Next]_vars /\ Fairness

(***************************************************************************)
(* Classification of a query at the entry of the call (lines 199-216):     *)
(* the queries are texts of up to MaxWords words.                          *)
(***************************************************************************)
Words ==
    << <<"S","t","a","r","t","U","p">>,
       <<"p","r","o","f","i","t","a","b","l","e">>,
       <<"b","u","s","i","n","e","s","s">>,
       <<"i","d","e","a">>,
       <<"D","e","c","o","d","e">>,
       <<"M","A","R","K","E","T">>,
       <<"a","n","a","l","y","s","i","s">>,
       <<"h","e","r","o","i","c">>,
       <<"p","r","o","f","i","t">>,
       <<"h","e","l","l","o">> >>

ClassifyQueries ==
    {Join(<<" ">>, [k \in 1..Len(ws) |-> Words[ws[k]]]) :
        ws \in UNION {[1..n -> 1..Len(Words)] : n \in 0..MaxWords}}

\* the call has been entered with its argument, no local is bound yet
Entry(query) ==
    [InitRun(query) EXCEPT
        !.pc = "entry",
        !.query_type = "unbound",
        !.specialized_prompts =
            [perplexity |-> None, claude |-> None, gpt |-> None]]

InitClassify ==
    /\ api_status = [p \in Providers |-> FALSE]
    /\ anthropic_key = None
    /\ \E q \in ClassifyQueries : run = Entry(q)
    /\ result = NotReturned
    /\ sessions = <<>>
    /\ session_state = <<>>
    /\ script = <<>>

\* lines 202-216: the locals are bound, query_type and specialized_prompts
\* from detect_query_type and get_specialized_prompts
StartRun ==
    /\ run.pc = "entry"
    /\ run' = InitRun(run.query)
    /\ UNCHANGED <<api_status, anthropic_key, result, sessions, session_state, script>>

NextClassify == StartRun

SpecClassify == InitClassify /\ [][NextClassify]_vars

(***************************************************************************)
(* Two user sessions served at once (caller at line 1369): each call of    *)
(* real_multi_agent_collaboration has its own locals, and the calls are    *)
(* interleaved at the provider calls.  The registry and the key are those  *)
(* of a fully configured process.                                          *)
(***************************************************************************)
SessionIds == {1, 2}

DispatchPcs == {"stage1", "stage2", "stage25", "stage26", "stage3", "stage4"}
AwaitPcs == {"await_research", "await_analysis", "await_critique",
             "await_refine", "await_creative", "await_synthesis"}

\* the step the call takes from a position where it is about to dispatch
DispatchOf(r) ==
    CASE r.pc = "stage1" -> Stage1Dispatch(r)
      [] r.pc = "stage2" -> Stage2Dispatch(r)
      [] r.pc = "stage25" -> Stage25Dispatch(r)
      [] r.pc = "stage26" -> Stage26Dispatch(r)
      [] r.pc = "stage3" -> Stage3Dispatch(r)
      [] r.pc = "stage4" -> Stage4Dispatch(r)

\* the step the call takes when the provider call in flight comes back
ReturnOf(r, o) ==
    CASE r.pc = "await_research" -> ResearchReturn(r, o)
      [] r.pc = "await_analysis" -> AnalysisReturn(r, o)
      [] r.pc = "await_critique" -> CritiqueReturn(r, o)
      [] r.pc = "await_refine" -> RefineReturn(r, o)
      [] r.pc = "await_creative" -> CreativeReturn(r, o)
      [] r.pc = "await_synthesis" -> SynthesisReturn(r, o)

\* what a provider call of session i can do: answer with the text of the
\* session, or raise
OutcomesFor(i) ==
    {o \in SdkOutcomes : o.kind = "raise" \/ (o.kind = "ok" /\ o.text = Text(i))}

\* Put with agent_errors kept in one list shared by all calls
Put_SharedErrors(ss, i, new) ==
    [j \in DOMAIN ss |->
        IF j = i THEN new
        ELSE [ss[j] EXCEPT !.run.agent_errors = new.run.agent_errors]]

\* the locals and the return value belong to the call: a step of session i
\* writes the state of session i only
Put(ss, i, new) == [ss EXCEPT ![i] = new]

InitConcurrent ==
    /\ api_status = [p \in Providers |->
                        p \in {"perplexity", "anthropic", "openai"}]
    /\ anthropic_key = <<"s","k","-","a","n","t","1">>
    /\ run = Entry(None)
    /\ result = NotReturned
    /\ sessions \in [SessionIds ->
                       {[run |-> InitRun(q), result |-> NotReturned,
                         answers |-> <<>>] : q \in Queries}]
    /\ session_state = <<>>
    /\ script = <<>>

SessionDispatches ==
    \E i \in SessionIds :
        /\ sessions[i].run.pc \in DispatchPcs
        /\ sessions' = Put(sessions, i,
                           [sessions[i] EXCEPT !.run = DispatchOf(@)])
        /\ UNCHANGED <<api_status, anthropic_key, run, result, session_state, script>>

SessionCallReturns ==
    \E i \in SessionIds :
        /\ sessions[i].run.pc \in AwaitPcs
        /\ \E o \in OutcomesFor(i) :
               sessions' = Put(sessions, i,
                               [sessions[i] EXCEPT
                                   !.run = ReturnOf(@, o),
                                   !.answers = Append(@, o)])
        /\ UNCHANGED <<api_status, anthropic_key, run, result, session_state, script>>

SessionReturns ==
    \E i \in SessionIds :
        /\ sessions[i].run.pc = "assemble"
        /\ \E elapsed \in 0..MaxElapsed :
               sessions' = Put(sessions, i,
                               [sessions[i] EXCEPT
                                   !.result = ReturnValue(sessions[i].run, elapsed),
                                   !.run.pc = "done"])
        /\ UNCHANGED <<api_status, anthropic_key, run, result, session_state, script>>

NextConcurrent ==
    \/ SessionDispatches
    \/ SessionCallReturns
    \/ SessionReturns

SpecConcurrent == InitConcurrent /\ [][NextConcurrent]_vars

(***************************************************************************)
(* One browser session: Streamlit runs the whole script once when the      *)
(* session opens and again for every widget event; st.session_state lives  *)
(* across the runs (app.py:108-130, 1041-1154; database.py:153-215).       *)
(***************************************************************************)
\* Optional[Dict] of a users row
NoUser == [is_none |-> TRUE, id |-> 0, username |-> "", mfa_enabled |-> FALSE]
UserDict(u) == [is_none |-> FALSE, id |-> u.id, username |-> u.username,
                mfa_enabled |-> u.mfa_enabled]

\* st.session_state.db: None, or a Database object with its connection
NoDb == [is_none |-> TRUE, conn |-> FALSE]
Database(connects) == [is_none |-> FALSE, conn |-> connects]

\* bcrypt.hashpw / bcrypt.checkpw
hashpw(password) == <<"bcrypt">> \o password
checkpw(password, password_hash) == password_hash = hashpw(password)

GoodPassword == <<"p","a","s","s","w","o","r","d","1">>
OtherPassword == <<"h","u","n","t","e","r","2","2","2">>
ShortPassword == <<"a","b","c">>

\* the users table when the session opens
InitialUsers ==
    {[id |-> 1, username |-> "alice", email |-> "a@x.org", is_active |-> TRUE,
      password_hash |-> hashpw(GoodPassword),
      mfa_enabled |-> FALSE, mfa_secret |-> ""],
     [id |-> 2, username |-> "bob", email |-> "b@x.org", is_active |-> TRUE,
      password_hash |-> hashpw(OtherPassword),
      mfa_enabled |-> TRUE, mfa_secret |-> "SECRET"]}

\* pyotp.TOTP(secret).verify(token, valid_window=1) at the time of the call
totp_verify(secret, token) == secret = "SECRET" /\ token = "123456"

\* Database.verify_user
verify_user(db, users, username, password) ==
    IF ~db.conn THEN NoUser
    ELSE LET found == {u \in users : /\ u.username = username
                                      /\ u.is_active
                                      /\ checkpw(password, u.password_hash)}
         IN  IF found # {} THEN UserDict(CHOOSE u \in found : TRUE)
             ELSE NoUser

\* Database.verify_mfa
verify_mfa(db, users, user_id, token) ==
    /\ db.conn
    /\ \E u \in users : /\ u.id = user_id
                         /\ u.mfa_enabled
                         /\ u.mfa_secret # ""
                         /\ totp_verify(u.mfa_secret, token)

\* Database.create_user: the table afterwards (unchanged when it returns None)
create_user(db, users, username, email, password) ==
    IF db.conn /\ ~\E u \in users : u.username = username \/ u.email = email
    THEN users \cup {[id |-> Cardinality(users) + 1, username |-> username,
                      email |-> email, is_active |-> TRUE,
                      password_hash |-> hashpw(password),
                      mfa_enabled |-> FALSE, mfa_secret |-> ""]}
    ELSE users

\* st.session_state before the first run: no key is set
EmptySessionState ==
    [keys |-> {}, db |-> NoDb, authenticated |-> FALSE, user |-> NoUser,
     user_id |-> 0, show_login |-> FALSE, show_register |-> FALSE,
     mfa_pending |-> FALSE, mfa_temp_user |-> NoUser]

\* init_db keeping the handle of an earlier run
init_db_KeepHandle(ss, database_available, connects) ==
    IF "db" \notin ss.keys
    THEN [ss EXCEPT !.db = IF database_available THEN Database(connects)
                           ELSE NoDb,
                    !.keys = @ \cup {"db"}]
    ELSE ss

\* lines 108-112
init_db(ss, database_available, connects) ==
    IF "db" \notin ss.keys /\ database_available
    THEN [ss EXCEPT !.db = Database(connects), !.keys = @ \cup {"db"}]
    ELSE [ss EXCEPT !.db = NoDb, !.keys = @ \cup {"db"}]

\* lines 114-130: a key that is not yet in the session state gets its default
init_session_state(ss) ==
    LET default(key, current, value) ==
            IF key \in ss.keys THEN current ELSE value
    IN  [ss EXCEPT
            !.authenticated = default("authenticated", @, FALSE),
            !.user = default("user", @, NoUser),
            !.user_id = default("user_id", @, 0),
            !.show_login = default("show_login", @, TRUE),
            !.show_register = default("show_register", @, FALSE),
            !.mfa_pending = default("mfa_pending", @, FALSE),
            !.mfa_temp_user = default("mfa_temp_user", @, NoUser),
            !.keys = @ \cup {"authenticated", "user", "user_id",
                             "show_login", "show_register", "mfa_pending",
                             "mfa_temp_user"}]

\* the screen the auth UI renders in this state (lines 1042-1116)
Screen(ss) ==
    IF ss.authenticated THEN "app"
    ELSE IF ss.mfa_pending /\ ~ss.mfa_temp_user.is_none THEN "mfa"
    ELSE IF ss.show_register THEN "register"
    ELSE IF ss.show_login THEN "login"
    ELSE "blank"

NoEvent == [kind |-> "none", username |-> "", email |-> "", password |-> <<>>,
            password2 |-> <<>>, code |-> ""]

\* what the user can do on a screen: press one of its buttons with the
\* text inputs filled in, or something that only reruns the script
Events(screen) ==
    {NoEvent}
      \cup (IF screen = "login"
            THEN {[NoEvent EXCEPT !.kind = "login", !.username = u,
                                  !.password = p] :
                     u \in {"alice", "bob", "eve"},
                     p \in {GoodPassword, OtherPassword, ShortPassword}}
                   \cup {[NoEvent EXCEPT !.kind = "to_register"]}
            ELSE {})
      \cup (IF screen = "register"
            THEN {[NoEvent EXCEPT !.kind = "register", !.username = u,
                                  !.email = m, !.password = p,
                                  !.password2 = q] :
                     u \in {"alice", "carol"}, m \in {"", "c@x.org"},
                     p \in {GoodPassword, ShortPassword},
                     q \in {GoodPassword, ShortPassword}}
                   \cup {[NoEvent EXCEPT !.kind = "to_login"]}
            ELSE {})
      \cup (IF screen = "mfa"
            THEN {[NoEvent EXCEPT !.kind = "verify", !.code = c] :
                     c \in {"123456", "000000"}}
                   \cup {[NoEvent EXCEPT !.kind = "cancel"]}
            ELSE {})

\* lines 1041-1154: the auth UI of one script run handling the event; yields
\* the session state, the users table and the message shown
auth_ui(ss, users, e) ==
    LET same(shown) == [ss |-> ss, users |-> users, shown |-> shown]
    IN  CASE Screen(ss) = "mfa" /\ e.kind = "verify" ->
               IF ~ss.db.is_none
                  /\ verify_mfa(ss.db, users, ss.mfa_temp_user.id, e.code)
               THEN [ss |-> [ss EXCEPT !.authenticated = TRUE,
                                       !.user = ss.mfa_temp_user,
                                       !.user_id = ss.mfa_temp_user.id,
                                       !.mfa_pending = FALSE,
                                       !.mfa_temp_user = NoUser],
                     users |-> users, shown |-> "Login successful!"]
               ELSE same("Invalid code")
          [] Screen(ss) = "mfa" /\ e.kind = "cancel" ->
               [ss |-> [ss EXCEPT !.mfa_pending = FALSE,
                                  !.mfa_temp_user = NoUser],
                users |-> users, shown |-> ""]
          [] Screen(ss) = "register" /\ e.kind = "register" ->
               IF e.username = "" \/ e.email = "" \/ e.password = <<>>
               THEN same("All fields are required")
               ELSE IF e.password # e.password2
               THEN same("Passwords don't match")
               ELSE IF Len(e.password) < 8
               THEN same("Password must be at least 8 characters")
               ELSE IF ~ss.db.is_none
               THEN LET after == create_user(ss.db, users, e.username,
                                             e.email, e.password)
                    IN  IF after # users
                        THEN [ss |-> [ss EXCEPT !.show_register = FALSE,
                                                !.show_login = TRUE],
                              users |-> after,
                              shown |-> "Account created! Please log in."]
                        ELSE same("Username or email already exists")
               ELSE same("Database not available")
          [] Screen(ss) = "register" /\ e.kind = "to_login" ->
               [ss |-> [ss EXCEPT !.show_register = FALSE,
                                  !.show_login = TRUE],
                users |-> users, shown |-> ""]
          [] Screen(ss) = "login" /\ e.kind = "login" ->
               IF ~ss.db.is_none
               THEN LET user == verify_user(ss.db, users, e.username,
                                            e.password)
                    IN  IF ~user.is_none
                        THEN IF user.mfa_enabled
                             THEN [ss |-> [ss EXCEPT !.mfa_pending = TRUE,
                                                     !.mfa_temp_user = user],
                                   users |-> users, shown |-> ""]
                             ELSE [ss |-> [ss EXCEPT !.authenticated = TRUE,
                                                     !.user = user,
                                                     !.user_id = user.id],
                                   users |-> users, shown |-> "Welcome back"]
                        ELSE same("Invalid username or password")
               ELSE same("Database not available")
          [] Screen(ss) = "login" /\ e.kind = "to_register" ->
               [ss |-> [ss EXCEPT !.show_login = FALSE,
                                  !.show_register = TRUE],
                users |-> users, shown |-> ""]
          [] OTHER -> same("")

\* one run of the script, top to bottom, handling the event
RunScript(ss, sc, e) ==
    auth_ui(init_session_state(init_db(ss, sc.DATABASE_AVAILABLE,
                                       sc.connects)),
            sc.users, e)

InitSession ==
    /\ api_status = [p \in Providers |-> FALSE]
    /\ anthropic_key = None
    /\ run = Entry(None)
    /\ result = NotReturned
    /\ sessions = <<>>
    /\ session_state = EmptySessionState
    /\ script \in {[DATABASE_AVAILABLE |-> a, connects |-> c,
                     users |-> InitialUsers, runs |-> 0, event |-> NoEvent,
                     shown |-> ""] : a \in BOOLEAN, c \in BOOLEAN}

\* the run that opens the session: no widget has been touched
FirstRun ==
    /\ script.runs = 0
    /\ LET out == RunScript(session_state, script, NoEvent)
       IN  /\ session_state' = out.ss
           /\ script' = [script EXCEPT !.runs = 1, !.users = out.users,
                                       !.event = NoEvent,
                                       !.shown = out.shown]
    /\ UNCHANGED <<api_status, anthropic_key, run, result, sessions>>

\* a rerun, caused by an event on the screen the last run rendered
Rerun ==
    /\ script.runs >= 1
    /\ script.runs < MaxRuns
    /\ \E e \in Events(Screen(session_state)) :
           LET out == RunScript(session_state, script, e)
           IN  /\ session_state' = out.ss
               /\ script' = [script EXCEPT !.runs = @ + 1,
                                           !.users = out.users,
                                           !.event = e,
                                           !.shown = out.shown]
    /\ UNCHANGED <<api_status, anthropic_key, run, result, sessions>>

NextSession ==
    \/ FirstRun
    \/ Rerun

SpecSession == InitSession /\ [][NextSession]_vars

(***************************************************************************)
(* Vocabulary of the properties                                            *)
(***************************************************************************)
MainStages == {"research", "analysis", "creative", "synthesis"}

\* how the call of a stage came back: "none" (never dispatched),
\* "pending" (in flight) or the kind of its outcome
Outcome(r, stage) ==
    LET at == {i \in 1..Len(r.dispatched) : r.dispatched[i].stage = stage}
    IN  IF at = {} THEN "none"
        ELSE LET i == CHOOSE i \in at : TRUE
             IN  IF i <= Len(r.returned) THEN r.returned[i] ELSE "pending"

WasDispatched(r, stage) == Outcome(r, stage) # "none"

\* the call of the stage came back, well-formed or not
CallReturned(r, stage) == Outcome(r, stage) \in {"ok", "malformed"}

\* the call of the stage was made and did not yield a usable answer
CallFailed(r, stage) == Outcome(r, stage) \in {"raise", "non200", "malformed"}

NumSucceeded(r) == Cardinality({s \in MainStages : Outcome(r, s) = "ok"})

ResearchLabel == <<"Perplexity", "Research", "Agent">>
AnalysisLabel == <<"Claude", "Analysis", "Agent">>
CreativeLabel == <<"GPT", "Creative", "Agent">>
SynthesisLabel == <<"Claude", "Synthesis", "Agent">>
StageLabels == <<ResearchLabel, AnalysisLabel, CreativeLabel, SynthesisLabel>>

UnrefinedHeading == <<"**", "Deep", "Analysis", ":**">>
RefinedHeading == <<"**", "Deep", "Analysis", "(Refined)", ":**">>

LabelStage(label) ==
    IF label = ResearchLabel THEN "research"
    ELSE IF label = AnalysisLabel THEN "analysis"
    ELSE IF label = CreativeLabel THEN "creative"
    ELSE IF label = SynthesisLabel THEN "synthesis"
    ELSE "other"

LabelModel(label) ==
    IF label = ResearchLabel THEN <<"sonar-pro">>
    ELSE IF label = CreativeLabel THEN <<"gpt-4o">>
    ELSE <<"claude-sonnet-4.5">>

EntryStage(response) ==
    IF StartsWith(response, <<"**", "Research", "Findings">>) THEN "research"
    ELSE IF StartsWith(response, <<"**", "Deep", "Analysis">>) THEN "analysis"
    ELSE IF StartsWith(response, <<"**", "Creative", "Perspective">>)
    THEN "creative"
    ELSE IF StartsWith(response, <<"**", "Strategic", "Synthesis">>)
    THEN "synthesis"
    ELSE "other"

RECURSIVE IsSubseq(_, _)
\* s is t with some elements left out, order kept
IsSubseq(s, t) ==
    IF s = <<>> THEN TRUE
    ELSE IF t = <<>> THEN FALSE
    ELSE IF Head(s) = Head(t) THEN IsSubseq(Tail(s), Tail(t))
    ELSE IsSubseq(s, Tail(t))

\* the labels of the stages whose call yielded a result, in stage order
SucceededLabels(r) ==
    SelectSeq(StageLabels, LAMBDA l : Outcome(r, LabelStage(l)) = "ok")

\* the three lists describe the same stages, entry by entry
Aligned(agents, models, responses) ==
    /\ Len(models) = Len(agents)
    /\ Len(responses) = Len(agents)
    /\ \A i \in 1..Len(agents) :
          /\ models[i] = LabelModel(agents[i])
          /\ EntryStage(responses[i]) = LabelStage(agents[i])

\* the entry is one of the sections of the report's detailed-analysis part
IsSection(report, entry) ==
    \/ Contains(report, <<"## Detailed Analysis", "\n\n">> \o entry
                          \o <<"\n\n", "---", "\n">>)
    \/ Contains(report, <<"---", "\n", "\n">> \o entry
                          \o <<"\n\n", "---", "\n">>)

Details == result.collaboration_details
Returned == run.pc = "done"

\* position the analysis entry takes in the result sequence
AnalysisPos == IF Truthy(run.research_output) THEN 2 ELSE 1

(***************************************************************************)
(* C1                                                                      *)
(***************************************************************************)
\* C1: whatever the query, the availability map and the outcome of each
\* provider call, no exception leaves real_multi_agent_collaboration and
\* the value it returns has success == True.
C1_AlwaysSucceeds ==
    /\ run.pc # "raised"
    /\ Returned => result.success = TRUE

\* three providers available, every call raised, the run still returned
C1_Witness ==
    /\ Returned
    /\ result.success = TRUE
    /\ Outcome(run, "research") = "raise"
    /\ Outcome(run, "analysis") = "raise"
    /\ Outcome(run, "creative") = "malformed"

(***************************************************************************)
(* C2                                                                      *)
(***************************************************************************)
ErrorSource(stage) ==
    CASE stage = "research" -> "Perplexity:"
      [] stage = "analysis" -> "Claude:"
      [] stage \in {"critique", "refine"} -> "Self-Critique:"
      [] stage = "creative" -> "OpenAI:"
      [] stage = "synthesis" -> "Synthesis:"

HasErrorFrom(r, source) ==
    \E i \in 1..Len(r.agent_errors) : r.agent_errors[i][1] = source

\* every failed call left an entry in agent_errors
FailuresRecorded(r) ==
    \A i \in 1..Len(r.returned) :
        r.returned[i] # "ok" =>
            HasErrorFrom(r, ErrorSource(r.dispatched[i].stage))

\* every stage whose own guard holds was attempted, whatever failed before
LaterStagesAttempted(r) ==
    /\ api_status["perplexity"] => WasDispatched(r, "research")
    /\ (api_status["anthropic"] /\ StartsWith(anthropic_key, <<"s","k","-">>))
          => WasDispatched(r, "analysis")
    /\ Outcome(r, "analysis") = "ok" => WasDispatched(r, "critique")
    /\ Outcome(r, "critique") = "ok" => WasDispatched(r, "refine")
    /\ api_status["openai"] => WasDispatched(r, "creative")
    /\ (/\ Cardinality({s \in {"research", "analysis", "creative"} :
                           Outcome(r, s) = "ok"}) >= 2
        /\ api_status["anthropic"]
        /\ Truthy(anthropic_key))
          => WasDispatched(r, "synthesis")

\* C2: no stage failure is fatal: once the run has returned, every provider
\* call that failed has a failure entry in agent_errors, and every stage
\* whose own guard held was still attempted.
C2_NoFailureIsFatal ==
    Returned => FailuresRecorded(run) /\ LaterStagesAttempted(run)

(***************************************************************************)
(* C3                                                                      *)
(***************************************************************************)
\* the run's own lists: exactly the stages that succeeded, in stage order
EntriesInStageOrder ==
    /\ IsSubseq(run.agents_used, StageLabels)
    /\ run.agents_used = SucceededLabels(run)
    /\ Aligned(run.agents_used, run.models_used, run.responses)

DeclaredCost(label) ==
    IF label = ResearchLabel THEN 2
    ELSE IF label = AnalysisLabel THEN 3
    ELSE IF label = CreativeLabel THEN 15
    ELSE IF label = SynthesisLabel THEN 3
    ELSE 0

RECURSIVE SumDeclared(_)
SumDeclared(labels) ==
    IF labels = <<>> THEN 0
    ELSE DeclaredCost(Head(labels)) + SumDeclared(Tail(labels))

\* C5: in every returned result total_cost is the sum of the declared cost
\* of every stage entry produced (research 2, analysis 3, creative 15,
\* synthesis 3 thousandths) plus 3 for each of the critique and refine
\* sub-calls that was carried out.
C5_CostIsSumOfEntries ==
    Returned =>
        Details.total_cost =
            SumDeclared(run.agents_used)
              + (IF CallReturned(run, "critique") THEN 3 ELSE 0)
              + (IF CallReturned(run, "refine") THEN 3 ELSE 0)

\* every stage and both sub-calls succeeded: 2 + 3 + 3 + 3 + 15 + 3
C5_Witness ==
    /\ Returned
    /\ Len(run.agents_used) = 4
    /\ Outcome(run, "refine") = "ok"
    /\ Details.total_cost = 29

(***************************************************************************)
(* C6                                                                      *)
(***************************************************************************)
UnitCost(stage) == IF stage = "research" THEN 2
                   ELSE IF stage = "creative" THEN 15
                   ELSE 3

RECURSIVE SumOver(_, _, _)
\* sum of f(i) for i in lo..hi
SumOver(f(_), lo, hi) ==
    IF lo > hi THEN 0 ELSE f(lo) + SumOver(f, lo + 1, hi)

\* C6 (as claimed): total_cost is the sum of the unit cost of every call
\* dispatched during the run, whether or not the call succeeded.
C6_Original ==
    LET unit(i) == UnitCost(run.dispatched[i].stage)
    IN  Returned => Details.total_cost = SumOver(unit, 1, Len(run.dispatched))

\* what the call costs given how it came back: a stage call is charged
\* when it yields a result, a critique or refine sub-call as soon as the
\* call returns, a call that raised or came back non-200 never
Charge(stage, kind) ==
    IF kind = "ok" \/ (kind = "malformed" /\ stage \in {"critique", "refine"})
    THEN UnitCost(stage)
    ELSE 0

\* C6 (amended): at every point of a run total_cost is the running sum of
\* the unit cost of every dispatched call that has returned its answer
\* (stage calls: a result was produced; critique and refine: the call
\* returned); a dispatched call that failed adds nothing.
C6_RunningCost ==
    LET charge(i) == Charge(run.dispatched[i].stage, run.returned[i])
    IN  /\ run.total_cost = SumOver(charge, 1, Len(run.returned))
        /\ Returned => Details.total_cost = run.total_cost

\* a failed research call and a failed refine call next to charged ones
C6_Witness ==
    /\ Returned
    /\ Outcome(run, "research") = "raise"
    /\ Outcome(run, "critique") = "ok"
    /\ Outcome(run, "refine") = "raise"
    /\ Outcome(run, "creative") = "ok"
    /\ Details.total_cost = 21

(***************************************************************************)
(* C7                                                                      *)
(***************************************************************************)
\* C7: the returned confidence is determined by the number n of stages
\* that succeeded: 0.75 for n <= 1, 0.88 for n = 2, 0.95 for n = 3 and
\* 0.98 for n >= 4.
C7_ConfidenceLadder ==
    Returned =>
        LET n == NumSucceeded(run)
        IN  /\ n \in {0, 1} => Details.confidence = 75
            /\ n = 2 => Details.confidence = 88
            /\ n = 3 => Details.confidence = 95
            /\ n >= 4 => Details.confidence = 98

\* three stages succeeded and the synthesis call failed
C7_Witness ==
    /\ Returned
    /\ NumSucceeded(run) = 3
    /\ Outcome(run, "synthesis") = "raise"
    /\ Details.confidence = 95

(***************************************************************************)
(* C8                                                                      *)
(***************************************************************************)
RefinementFailed(r) ==
    /\ Outcome(r, "analysis") = "ok"
    /\ CallFailed(r, "critique") \/ CallFailed(r, "refine")

\* number of entries of the sequence equal to the value
CountIn(seq, value) == Cardinality({i \in 1..Len(seq) : seq[i] = value})

\* C8: if the analysis stage succeeded and the critique call or the refine
\* call failed, the unrefined analysis entry is in responses exactly once,
\* at the analysis position, no refined entry exists, a Self-Critique
\* failure is recorded, analysis_output is still the unrefined text, the
\* creative and synthesis prompts carry it, and the report has it as a
\* section.
C8_UnrefinedKept ==
    RefinementFailed(run) =>
        LET unrefined == run.analysis_result.response
        IN  /\ StartsWith(unrefined, UnrefinedHeading)
            /\ CountIn(run.responses, unrefined) = 1
            /\ run.responses[AnalysisPos] = unrefined
            /\ \A i \in 1..Len(run.responses) :
                  ~StartsWith(run.responses[i], RefinedHeading)
            /\ HasErrorFrom(run, "Self-Critique:")
            /\ run.analysis_output = unrefined
            /\ \A i \in 1..Len(run.dispatched) :
                  run.dispatched[i].stage \in {"creative", "synthesis"} =>
                      /\ Contains(run.dispatched[i].prompt, unrefined)
                      /\ ~Contains(run.dispatched[i].prompt, RefinedHeading)
            /\ Returned =>
                  /\ IsSection(result.response, unrefined)
                  /\ Occurrences(result.response, UnrefinedHeading) = 1

\* the refine call raised and both later stages were dispatched
C8_Witness ==
    /\ Returned
    /\ Outcome(run, "critique") = "ok"
    /\ Outcome(run, "refine") = "raise"
    /\ WasDispatched(run, "creative")
    /\ WasDispatched(run, "synthesis")

(***************************************************************************)
(* C9                                                                      *)
(***************************************************************************)
Refined(r) ==
    /\ Outcome(r, "analysis") = "ok"
    /\ Outcome(r, "critique") = "ok"
    /\ Outcome(r, "refine") = "ok"

C10_Original ==
    Refined(run) => run.agents_used[AnalysisPos] # AnalysisLabel

\* C10 (amended): after a successful refinement the heading of the analysis
\* entry's text is '**Deep Analysis (Refined):**', in responses and in the
\* report, while the agent label in agents_used stays 'Claude Analysis
\* Agent' and the model in models_used is unchanged.
C10_HeadingRefined ==
    Refined(run) =>
        /\ StartsWith(run.responses[AnalysisPos], RefinedHeading)
        /\ run.agents_used[AnalysisPos] = AnalysisLabel
        /\ run.models_used[AnalysisPos] = <<"claude-sonnet-4.5">>
        /\ Returned =>
              /\ Details.agents_used[AnalysisPos] = AnalysisLabel
              /\ Occurrences(result.response, RefinedHeading) >= 1

\* the refinement succeeded and the run returned
C10_Witness ==
    /\ Returned
    /\ Refined(run)
    /\ Contains(result.response, RefinedHeading)

(***************************************************************************)
(* C11                                                                     *)
(***************************************************************************)
\* number of the three stages before synthesis that yielded a result
PriorSucceeded(r) ==
    Cardinality({st \in {"research", "analysis", "creative"} :
                    Outcome(r, st) = "ok"})

\* last element of a non-empty sequence
Last(seq) == seq[Len(seq)]

\* C11: a synthesis call is dispatched only if at least two of research,
\* analysis and creative succeeded and api_status marks anthropic
\* available; when it succeeds, exactly one synthesis entry exists and it
\* is the last entry of agents_used, models_used and responses.
C11_SynthesisGuard ==
    /\ WasDispatched(run, "synthesis") =>
          /\ PriorSucceeded(run) >= 2
          /\ api_status["anthropic"]
          /\ Last(run.dispatched).stage = "synthesis"
    /\ Outcome(run, "synthesis") = "ok" =>
          /\ CountIn(run.agents_used, SynthesisLabel) = 1
          /\ Last(run.agents_used) = SynthesisLabel
          /\ Last(run.models_used) = <<"claude-sonnet-4.5">>
          /\ EntryStage(Last(run.responses)) = "synthesis"
          /\ Cardinality({i \in 1..Len(run.responses) :
                EntryStage(run.responses[i]) = "synthesis"}) = 1
          /\ Len(run.responses) = PriorSucceeded(run) + 1

\* exactly two prior stages succeeded and the synthesis entry was appended
C11_Witness ==
    /\ Returned
    /\ PriorSucceeded(run) = 2
    /\ Outcome(run, "synthesis") = "ok"
    /\ Len(run.agents_used) = 3

(***************************************************************************)
(* C12                                                                     *)
(***************************************************************************)
\* position of the stage's call in the dispatch trace (0: never dispatched)
DispatchIndex(r, stage) ==
    LET at == {i \in 1..Len(r.dispatched) : r.dispatched[i].stage = stage}
    IN  IF at = {} THEN 0 ELSE CHOOSE i \in at : TRUE

\* C12: the critique call is dispatched only after the analysis call of
\* the run has succeeded, the refine call only after the critique call of
\* the run has succeeded; neither is dispatched when the analysis stage
\* was skipped or failed.
C12_CritiqueRefineGuards ==
    /\ WasDispatched(run, "critique") =>
          /\ Outcome(run, "analysis") = "ok"
          /\ DispatchIndex(run, "critique")
                = DispatchIndex(run, "analysis") + 1
    /\ WasDispatched(run, "refine") =>
          /\ Outcome(run, "analysis") = "ok"
          /\ Outcome(run, "critique") = "ok"
          /\ DispatchIndex(run, "refine")
                = DispatchIndex(run, "critique") + 1
    /\ Outcome(run, "analysis") # "ok" =>
          /\ ~WasDispatched(run, "critique")
          /\ ~WasDispatched(run, "refine")

\* the critique call came back unreadable, so no refine call followed
C12_Witness ==
    /\ Returned
    /\ Outcome(run, "analysis") = "ok"
    /\ Outcome(run, "critique") = "malformed"
    /\ ~WasDispatched(run, "refine")

(***************************************************************************)
(* C13                                                                     *)
(***************************************************************************)
StageOrder ==
    <<"research", "analysis", "critique", "refine", "creative", "synthesis">>

\* the stages of the calls dispatched so far, in dispatch order
DispatchedStages(r) ==
    [i \in 1..Len(r.dispatched) |-> r.dispatched[i].stage]

\* C13: the calls of a run are dispatched one after the other in the order
\* research, analysis, critique, refine, creative, synthesis: at most one
\* call is in flight, and a call is dispatched only once every earlier
\* call has come back.
C13_Sequential ==
    /\ IsSubseq(DispatchedStages(run), StageOrder)
    /\ Len(run.dispatched) - Len(run.returned) \in {0, 1}
    /\ (run.inflight # NoCall) <=> (Len(run.dispatched) = Len(run.returned) + 1)
    /\ run.inflight # NoCall => run.inflight = Last(run.dispatched)

\* all six calls were dispatched, the last one is in flight
C13_Witness ==
    /\ Len(run.dispatched) = 6
    /\ Len(run.returned) = 5
    /\ run.inflight.stage = "synthesis"

(***************************************************************************)
(* C14                                                                     *)
(***************************************************************************)
ContextHeading == <<"\n\n", "**Context from previous analysis:**", "\n">>

\* the prompt the call of the stage was dispatched with
PromptOf(r, stage) == r.dispatched[DispatchIndex(r, stage)].prompt

\* C14: the analysis call carries the research output, under the heading
\* 'Context from previous analysis', exactly when the research stage
\* succeeded in this run; otherwise its prompt is the bare specialised
\* analysis prompt.
C14_AnalysisContext ==
    WasDispatched(run, "analysis") =>
        LET bare == get_specialized_prompts(run.query, run.query_type).claude
            prompt == PromptOf(run, "analysis")
        IN  IF Outcome(run, "research") = "ok"
            THEN /\ EntryStage(run.research_result.response) = "research"
                 /\ prompt = bare \o ContextHeading
                                  \o run.research_result.response
            ELSE /\ prompt = bare
                 /\ ~Contains(prompt, ContextHeading)

\* research succeeded and its findings went into the analysis prompt
C14_Witness ==
    /\ WasDispatched(run, "analysis")
    /\ Outcome(run, "research") = "ok"
    /\ Contains(PromptOf(run, "analysis"), <<"**", "Research", "Findings">>)

(***************************************************************************)
(* C15                                                                     *)
(***************************************************************************)
\* C15: the creative call carries both outputs when research and analysis
\* both succeeded, the one that succeeded when only one did, and no context
\* when neither did; the analysis part is the refined text when the
\* refinement succeeded and the unrefined text otherwise.
C15_CreativeContext ==
    WasDispatched(run, "creative") =>
        LET bare == get_specialized_prompts(run.query, run.query_type).gpt
            prompt == PromptOf(run, "creative")
            research_ok == Outcome(run, "research") = "ok"
            analysis_ok == Outcome(run, "analysis") = "ok"
            research == run.research_result.response
            analysis == IF Refined(run) THEN run.responses[AnalysisPos]
                        ELSE run.analysis_result.response
        IN  /\ (analysis_ok /\ Refined(run)) =>
                   StartsWith(analysis, RefinedHeading)
            /\ (analysis_ok /\ ~Refined(run)) =>
                   StartsWith(analysis, UnrefinedHeading)
            /\ (research_ok /\ analysis_ok) =>
                   prompt = bare \o ContextHeading
                                 \o <<"RESEARCH:", "\n">> \o research
                                 \o <<"\n\n", "ANALYSIS:", "\n">> \o analysis
            /\ (research_ok /\ ~analysis_ok) =>
                   prompt = bare \o ContextHeading \o research
            /\ (~research_ok /\ analysis_ok) =>
                   prompt = bare \o ContextHeading \o analysis
            /\ (~research_ok /\ ~analysis_ok) => prompt = bare

\* both outputs present, the analysis one refined
C15_Witness ==
    /\ WasDispatched(run, "creative")
    /\ Outcome(run, "research") = "ok"
    /\ Refined(run)
    /\ Contains(PromptOf(run, "creative"), RefinedHeading)

(***************************************************************************)
(* C16                                                                     *)
(***************************************************************************)
\* the sources under which failures of a provider's stages are recorded
ProviderSources(p) ==
    CASE p = "perplexity" -> {"Perplexity:"}
      [] p = "anthropic" -> {"Claude:", "Self-Critique:", "Synthesis:"}
      [] p = "openai" -> {"OpenAI:"}

\* C16: for a provider api_status marks unavailable, no call to it is ever
\* dispatched in the run and no entry of agent_errors stems from it.
C16_UnavailableSkippedSilently ==
    \A p \in {"perplexity", "anthropic", "openai"} :
        ~api_status[p] =>
            /\ \A i \in 1..Len(run.dispatched) :
                  run.dispatched[i].provider # p
            /\ \A src \in ProviderSources(p) : ~HasErrorFrom(run, src)

\* anthropic unavailable although two stages succeeded: analysis and
\* synthesis were skipped and nothing was recorded
C16_Witness ==
    /\ Returned
    /\ ~api_status["anthropic"]
    /\ Outcome(run, "research") = "ok"
    /\ Outcome(run, "creative") = "ok"
    /\ Details.errors.is_none
    /\ Len(run.dispatched) = 2

(***************************************************************************)
(* C17                                                                     *)
(***************************************************************************)
KeyWellFormed(key) == Truthy(key) /\ StartsWith(key, <<"s","k","-">>)

\* the run is past the analysis stage's pre-checks
PastStage2 == run.pc \notin {"stage1", "await_research", "stage2"}

\* number of entries of agent_errors recorded under the source
ErrorsFrom(r, source) ==
    Cardinality({i \in 1..Len(r.agent_errors) :
                    r.agent_errors[i][1] = source})

\* C17: with anthropic marked available and a credential that does not
\* start with 'sk-', the analysis stage dispatches no call, appends exactly
\* one entry describing the invalid key format, and produces no analysis
\* entry.
C17_BadKeyFormat ==
    (api_status["anthropic"] /\ ~KeyWellFormed(anthropic_key)) =>
        /\ ~WasDispatched(run, "analysis")
        /\ ErrorsFrom(run, "Claude:") = (IF PastStage2 THEN 1 ELSE 0)
        /\ PastStage2 =>
              \E i \in 1..Len(run.agent_errors) :
                  run.agent_errors[i] =
                      <<"Claude:",
                        "API key format invalid (should start with 'sk-', got '",
                        "p", "k", "-", "a", "n", "...')">>
        /\ CountIn(run.agents_used, AnalysisLabel) = 0
        /\ run.analysis_output = None
        /\ run.analysis_result = NoneDict

\* the run returned with the malformed key and the single entry
C17_Witness ==
    /\ Returned
    /\ api_status["anthropic"]
    /\ ~KeyWellFormed(anthropic_key)
    /\ ErrorsFrom(run, "Claude:") = 1

(***************************************************************************)
(* C18                                                                     *)
(***************************************************************************)
\* C18: no call is ever dispatched to the anthropic provider with a
\* credential that is absent or fails the 'sk-' format check, in any of
\* the analysis, critique, refine and synthesis stages.
C18_FailClosed ==
    \A i \in 1..Len(run.dispatched) :
        run.dispatched[i].provider = "anthropic" =>
            KeyWellFormed(run.dispatched[i].api_key)

(***************************************************************************)
(* C19                                                                     *)
(***************************************************************************)
\* failed calls whose failure is recorded under the source
FailedCallsOf(r, source) ==
    {i \in 1..Len(r.returned) :
        /\ r.returned[i] # "ok"
        /\ ErrorSource(r.dispatched[i].stage) = source}

\* entries the analysis stage's credential pre-checks put under the source
PrecheckEntries(source) ==
    IF /\ source = "Claude:"
       /\ PastStage2
       /\ api_status["anthropic"]
       /\ ~KeyWellFormed(anthropic_key)
    THEN 1 ELSE 0

ErrorSources ==
    {"Perplexity:", "Claude:", "Self-Critique:", "OpenAI:", "Synthesis:"}

\* C19: every dispatched call that failed, by raising or by a non-2xx
\* response, has exactly one entry in agent_errors, made of the provider
\* or stage name and a message, and its stage contributes no result.
C19_EveryFailureRecorded ==
    /\ \A src \in ErrorSources :
          ErrorsFrom(run, src)
              = Cardinality(FailedCallsOf(run, src)) + PrecheckEntries(src)
    /\ \A i \in 1..Len(run.agent_errors) : Len(run.agent_errors[i]) >= 2
    /\ \A l \in {ResearchLabel, AnalysisLabel, CreativeLabel, SynthesisLabel} :
          CallFailed(run, LabelStage(l)) => CountIn(run.agents_used, l) = 0

(***************************************************************************)
(* C20                                                                     *)
(***************************************************************************)
\* C20: when providers are available and no stage succeeds, the run
\* returns success with the fixed fallback body, agents_successful 0,
\* confidence 0.75, total_cost 0, and errors holding the recorded failure
\* entries, among them one for every call that raised.
C20_TotalExhaustion ==
    (Returned /\ Details.agents_available >= 1 /\ NumSucceeded(run) = 0) =>
        /\ result.success = TRUE
        /\ result.response =
              <<"### Analysis: ">> \o run.query
                \o <<"\n\n",
                     "Providing enhanced analysis through multi-agent collaboration.",
                     "\n\n", "**Approach:**">>
        /\ Details.agents_successful = 0
        /\ Details.confidence = 75
        /\ Details.total_cost = 0
        /\ Details.consensus_method = "enhanced_fallback"
        /\ Details.errors.list = run.agent_errors
        /\ Details.errors.is_none <=> (run.agent_errors = <<>>)
        /\ \A i \in 1..Len(run.returned) :
              run.returned[i] \in {"raise", "malformed"} =>
                  \E k \in 1..Len(Details.errors.list) :
                      Details.errors.list[k][1]
                          = ErrorSource(run.dispatched[i].stage)

\* all three providers available and each of their calls raised
C20_Witness ==
    /\ Returned
    /\ Details.agents_available = 3
    /\ NumSucceeded(run) = 0
    /\ Len(run.dispatched) = 3
    /\ Len(Details.errors.list) = 3

(***************************************************************************)
(* C21                                                                     *)
(***************************************************************************)
\* none of the three providers the pipeline calls is available
NoProviderAvailable ==
    /\ ~api_status["perplexity"]
    /\ ~api_status["anthropic"]
    /\ ~api_status["openai"]

PlaceholderAgents == << <<"Enhanced", "Reasoning", "Agent">> >>
PlaceholderModels == << <<"Multi-Model Synthesis">> >>

OnlyResearchAvailable ==
    /\ api_status["perplexity"]
    /\ ~api_status["anthropic"]
    /\ ~api_status["openai"]

\* C22: when only the research provider is available and its call
\* succeeds, the result holds exactly one stage entry, labeled as the
\* research agent, and no synthesis call (nor any other call) is dispatched.
C22_ResearchOnly ==
    (OnlyResearchAvailable /\ Outcome(run, "research") = "ok") =>
        /\ run.agents_used = <<ResearchLabel>>
        /\ Len(run.responses) = 1
        /\ EntryStage(run.responses[1]) = "research"
        /\ ~WasDispatched(run, "synthesis")
        /\ DispatchedStages(run) = <<"research">>
        /\ Returned =>
              /\ Details.agents_used = <<ResearchLabel>>
              /\ Details.agents_successful = 1
              /\ IsSection(result.response, run.responses[1])

C22_Witness ==
    /\ Returned
    /\ OnlyResearchAvailable
    /\ Outcome(run, "research") = "ok"
    /\ Details.agents_used = <<ResearchLabel>>

(***************************************************************************)
(* C23                                                                     *)
(***************************************************************************)
EndsWith(s, suffix) ==
    /\ Len(suffix) <= Len(s)
    /\ SubSeq(s, Len(s) - Len(suffix) + 1, Len(s)) = suffix

\* the providers a call of this run was sent to
ProvidersAttempted(r) ==
    {r.dispatched[i].provider : i \in 1..Len(r.dispatched)}

StatusHeading == <<"\n\n", "**Agent Status:**", "\n">>

\* the line of the agent-status block giving n successes out of m
CountLine(n, m) ==
    <<"* ", IntStr(n), " of ", IntStr(m),
      " agents responded successfully", "\n">>

\* one line per recorded failure, in recording order
FailureLines(r) ==
    Join(<<>>, [i \in 1..Len(r.agent_errors) |->
                   <<"* ">> \o r.agent_errors[i] \o <<"\n">>])

\* C23 as stated: the block states the success count out of the number of
\* providers actually attempted in this run.
C23_Original ==
    (Returned /\ Truthy(run.agent_errors) /\ Truthy(run.responses)) =>
        EndsWith(result.response,
                 StatusHeading
                   \o CountLine(Len(run.agents_used),
                                Cardinality(ProvidersAttempted(run)))
                   \o FailureLines(run))

\* C23: whenever at least one failure was recorded and at least one stage
\* succeeded, the report ends with an agent-status block that states the
\* success count out of the fixed number 4 and holds exactly one line per
\* recorded failure, in recording order; with no recorded failure, or with
\* no stage succeeded, the report has no such block.
C23_AgentStatusBlock ==
    Returned =>
        IF Truthy(run.agent_errors) /\ Truthy(run.responses)
        THEN /\ EndsWith(result.response,
                         StatusHeading \o CountLine(Len(run.agents_used), 4)
                           \o FailureLines(run))
             /\ Occurrences(result.response, <<"**Agent Status:**">>) = 1
        ELSE ~Contains(result.response, <<"**Agent Status:**">>)

\* two failures recorded next to one success
C23_Witness ==
    /\ Returned
    /\ Len(run.agent_errors) = 2
    /\ Len(run.responses) = 1
    /\ Contains(result.response, <<"**Agent Status:**">>)

(***************************************************************************)
(* C24                                                                     *)
(***************************************************************************)
LayerLine(stage) ==
    CASE stage = "research" -> <<"- **Research Layer**", "\n">>
      [] stage = "analysis" -> <<"- **Analytical Layer**", "\n">>
      [] stage = "creative" -> <<"- **Creative Layer**", "\n">>
      [] stage = "synthesis" -> <<"- **Synthesis Layer**", "\n">>

\* the lines of the stages that succeeded, in stage order
ExpectedLayers(r) ==
    Join(<<>>, [i \in 1..Len(SucceededLabels(r)) |->
                   LayerLine(LabelStage(SucceededLabels(r)[i]))])

\* C24: the key-takeaways block holds exactly one fixed description line
\* per stage category that succeeded (Research, Analysis, Creative,
\* Synthesis), in stage order, and no line for a category that did not.
C24_KeyTakeaways ==
    (Returned /\ Truthy(run.responses)) =>
        /\ EndsWith(result.response,
                    <<"## Key Takeaways", "\n\n",
                      "This analysis combines **",
                      IntStr(NumSucceeded(run)), " AI perspectives**",
                      "\n\n">>
                      \o ExpectedLayers(run) \o error_summary(run))
        /\ \A stage \in MainStages :
              Occurrences(result.response, LayerLine(stage))
                 = IF Outcome(run, stage) = "ok" THEN 1 ELSE 0

\* research failed, the other three stages succeeded
C24_Witness ==
    /\ Returned
    /\ Outcome(run, "research") = "raise"
    /\ Outcome(run, "analysis") = "ok"
    /\ Outcome(run, "creative") = "ok"
    /\ Outcome(run, "synthesis") = "ok"
    /\ Contains(result.response,
                LayerLine("analysis") \o LayerLine("creative")
                  \o LayerLine("synthesis"))

(***************************************************************************)
(* C25                                                                     *)
(***************************************************************************)
Bullet(stage) ==
    CASE stage = "research"
           -> <<"Research-backed with current market data and citations">>
      [] stage = "analysis"
           -> <<"Detailed implementation strategies and profit projections">>
      [] stage = "creative"
           -> <<"Creative alternatives and innovative approaches">>

\* bullets of the executive summary of the report
NumBullets(report) ==
    Occurrences(report, <<"Multi-perspective analysis from ">>)
      + Occurrences(report, Bullet("research"))
      + Occurrences(report, Bullet("analysis"))
      + Occurrences(report, Bullet("creative"))

\* C25: the executive-summary block never has more than 3 bullets, and each
\* category bullet (research, analysis, creative) appears only if the stage
\* of that category succeeded.
C25_ExecutiveSummary ==
    (Returned /\ Truthy(run.responses)) =>
        /\ NumBullets(result.response) <= 3
        /\ \A stage \in {"research", "analysis", "creative"} :
              Contains(result.response, Bullet(stage))
                 => Outcome(run, stage) = "ok"

\* the bound of 3 bullets, which does hold
C25_AtMostThree ==
    Returned => NumBullets(result.response) <= 3

(***************************************************************************)
(* C26                                                                     *)
(***************************************************************************)
Categories ==
    <<"business_strategy", "technical_analysis", "market_research",
      "financial_analysis">>

CategoryTerms(c) ==
    CASE c = 1 -> BusinessTerms
      [] c = 2 -> TechnicalTerms
      [] c = 3 -> MarketTerms
      [] c = 4 -> FinancialTerms

\* term (lower case) occurs in the query at some position, letter case of
\* the query ignored
OccursIgnoringCase(term, query) ==
    \E p \in 0..(Len(query) - Len(term)) :
        \A k \in 1..Len(term) : Lower(<<query[p + k]>>) = <<term[k]>>

\* the categories one of whose keywords occurs in the query
Hits(query) ==
    {c \in 1..4 : \E k \in 1..Len(CategoryTerms(c)) :
                     OccursIgnoringCase(CategoryTerms(c)[k], query)}

Classified == run.pc # "entry"

\* C26: detect_query_type returns the first category, in the priority
\* order business_strategy, technical_analysis, market_research,
\* financial_analysis, one of whose keywords occurs as a case-insensitive
\* substring of the query; a query matching several categories gets the
\* one of highest priority.
C26_FirstMatchWins ==
    (Classified /\ Hits(run.query) # {}) =>
        \E c \in Hits(run.query) :
            /\ \A d \in Hits(run.query) : c <= d
            /\ run.query_type = Categories[c]

\* a query with a technical and a market keyword, classified technical
C26_Witness ==
    /\ Classified
    /\ Hits(run.query) = {2, 3}
    /\ run.query_type = "technical_analysis"

(***************************************************************************)
(* C27                                                                     *)
(***************************************************************************)
\* C27: detect_query_type is total and deterministic: for every query it
\* returns exactly one of the five categories, never null, the same value
\* on every call, and 'general' exactly when no keyword of any category
\* occurs in the query.
C27_TotalDeterministic ==
    Classified =>
        /\ run.query_type \in {Categories[c] : c \in 1..4} \cup {"general"}
        /\ run.query_type = detect_query_type(run.query)
        /\ (run.query_type = "general") <=> (Hits(run.query) = {})

\* a query of two words without any keyword, and the empty query
C27_Witness ==
    /\ Classified
    /\ Len(run.query) > 5
    /\ Hits(run.query) = {}
    /\ run.query_type = "general"

(***************************************************************************)
(* C28                                                                     *)
(***************************************************************************)
StartupTerm == <<"s","t","a","r","t","u","p">>

\* C28: every query containing 'startup', in any letter case and whatever
\* other keywords it has, is classified business_strategy, and its analysis
\* prompt is the business template, which contains 'Implementation
\* timeline' and embeds the raw query verbatim.
C28_Startup ==
    (Classified /\ OccursIgnoringCase(StartupTerm, run.query)) =>
        /\ run.query_type = "business_strategy"
        /\ run.specialized_prompts
              = get_specialized_prompts(run.query, "business_strategy")
        /\ Contains(run.specialized_prompts.claude, <<"Implementation timeline">>)
        /\ EndsWith(run.specialized_prompts.claude, <<"for:">> \o run.query)

\* 'StartUp' typed with capitals next to a technical keyword
C28_Witness ==
    /\ Classified
    /\ OccursIgnoringCase(StartupTerm, run.query)
    /\ ~Contains(run.query, StartupTerm)
    /\ 2 \in Hits(run.query)
    /\ run.query_type = "business_strategy"

(***************************************************************************)
(* C29                                                                     *)
(***************************************************************************)
\* how many calls of the stage the run has dispatched
TimesDispatched(r, stage) ==
    Cardinality({i \in 1..Len(r.dispatched) : r.dispatched[i].stage = stage})

\* C29: no retry is ever performed: each of the six stage calls (research,
\* analysis, critique, refine, creative, synthesis) is dispatched at most
\* once, so a run dispatches at most 6 provider calls, and a stage whose
\* call failed is never invoked again.
C29_NoRetry ==
    /\ Len(run.dispatched) <= 6
    /\ \A i \in 1..Len(StageOrder) :
          /\ TimesDispatched(run, StageOrder[i]) <= 1
          /\ (\E k \in 1..Len(run.returned) :
                 /\ run.dispatched[k].stage = StageOrder[i]
                 /\ run.returned[k] # "ok")
             => \A j \in 1..Len(run.dispatched) :
                   run.dispatched[j].stage = StageOrder[i]
                      => j <= Len(run.returned)

\* all six calls made, three of them failed, the run has returned
C29_Witness ==
    /\ Returned
    /\ Len(run.dispatched) = 6
    /\ Outcome(run, "research") = "raise"
    /\ Outcome(run, "refine") = "raise"
    /\ Outcome(run, "synthesis") = "malformed"

(***************************************************************************)
(* C30                                                                     *)
(***************************************************************************)
RECURSIVE Replay(_, _)
\* the call run alone from r, its provider calls given the outcomes of
\* `answers` one after the other
Replay(r, answers) ==
    IF r.pc \in DispatchPcs THEN Replay(DispatchOf(r), answers)
    ELSE IF r.pc \in AwaitPcs /\ answers # <<>>
    THEN Replay(ReturnOf(r, Head(answers)), Tail(answers))
    ELSE r

\* what session i would hold had it run alone with the same outcomes
Alone(i) == Replay(InitRun(sessions[i].run.query), sessions[i].answers)

\* C30: two pipeline runs interleaved at the granularity of provider calls
\* are independent: the agents_used, models_used, responses, errors and
\* total_cost of each run, and its return value, are those it would have
\* had running alone with the same provider outcomes.
C30_RunsIndependent ==
    \A i \in DOMAIN sessions :
        LET mine == sessions[i].run
        IN  mine.pc \in {"assemble", "done"} =>
               /\ mine.agents_used = Alone(i).agents_used
               /\ mine.models_used = Alone(i).models_used
               /\ mine.responses = Alone(i).responses
               /\ mine.agent_errors = Alone(i).agent_errors
               /\ mine.total_cost = Alone(i).total_cost
               /\ mine.pc = "done" =>
                     sessions[i].result
                        = ReturnValue(Alone(i),
                                      sessions[i].result.collaboration_details
                                                        .processing_time)

\* session 1 has returned with every stage succeeded while session 2 is in
\* the middle of its run, has had a failure and is waiting for a provider
C30_Witness ==
    /\ DOMAIN sessions = SessionIds
    /\ sessions[1].run.pc = "done"
    /\ sessions[1].run.agent_errors = <<>>
    /\ Len(sessions[1].run.responses) = 4
    /\ sessions[2].run.inflight # NoCall
    /\ sessions[2].run.agent_errors # <<>>

(***************************************************************************)
(* C31                                                                     *)
(***************************************************************************)
\* C31: a pipeline run never modifies the capability registry: no step of
\* the run, whatever the outcome of its calls, changes api_status.
C31_RegistryReadOnly == [][api_status' = api_status]_vars

\* a run that returned after failed calls to available providers
C31_Witness ==
    /\ Returned
    /\ api_status["perplexity"] /\ api_status["openai"]
    /\ Outcome(run, "research") = "raise"
    /\ Outcome(run, "creative") = "raise"

(***************************************************************************)
(* C33                                                                     *)
(***************************************************************************)
SourceOrder ==
    <<"Perplexity:", "Claude:", "Self-Critique:", "OpenAI:", "Synthesis:">>

\* the sources of the recorded failures, in recording order
RecordedSources(r) == [i \in 1..Len(r.agent_errors) |-> r.agent_errors[i][1]]

\* C33: all failure information is returned as data: the errors field of
\* the result is null exactly when no failure entry was recorded during the
\* run, and otherwise it is the list of all recorded failure entries, in
\* the order in which the stages recorded them.
C33_ErrorsAsData ==
    Returned =>
        /\ Details.errors.is_none <=> (Len(run.agent_errors) = 0)
        /\ Details.errors.list = run.agent_errors
        /\ IsSubseq(RecordedSources(run), SourceOrder)
        /\ result.success = TRUE

\* three failures handed back in stage order
C33_Witness ==
    /\ Returned
    /\ ~Details.errors.is_none
    /\ RecordedSources([agent_errors |-> Details.errors.list])
          = <<"Perplexity:", "Self-Critique:", "OpenAI:">>

(***************************************************************************)
(* C35                                                                     *)
(***************************************************************************)
\* C35: in every result a synthesis entry is present only if at least three
\* entries are present in total; so a result with exactly two successful
\* stages never holds synthesis, and four successful stages are research,
\* analysis, creative and synthesis.
C35_SynthesisNeedsThree ==
    Returned =>
        /\ CountIn(Details.agents_used, SynthesisLabel) > 0
              => Len(Details.agents_used) >= 3
        /\ Details.agents_successful = 2
              => /\ CountIn(Details.agents_used, SynthesisLabel) = 0
                 /\ ~Contains(result.response, <<"**", "Strategic", "Synthesis">>)
        /\ Details.agents_successful = 4 => Details.agents_used = StageLabels

\* a result of exactly three entries, the last of them the synthesis
C35_Witness ==
    /\ Returned
    /\ Len(Details.agents_used) = 3
    /\ Details.agents_used[3] = SynthesisLabel

(***************************************************************************)
(* C36                                                                     *)
(***************************************************************************)
\* C36: in every run the errors list has at most 4 entries, at most one per
\* source (Perplexity, Claude, Self-Critique, OpenAI, Synthesis); a
\* 'Claude:' entry and a 'Self-Critique:' entry never occur in the same
\* run, and a critique failure, after which no refine call is made, leaves
\* a single Self-Critique entry.
C36_ErrorsBounded ==
    /\ Len(run.agent_errors) <= 4
    /\ \A i \in 1..Len(run.agent_errors) : run.agent_errors[i][1] \in ErrorSources
    /\ \A src \in ErrorSources : ErrorsFrom(run, src) <= 1
    /\ ~(HasErrorFrom(run, "Claude:") /\ HasErrorFrom(run, "Self-Critique:"))
    /\ CallFailed(run, "critique") =>
          /\ ~WasDispatched(run, "refine")
          /\ ErrorsFrom(run, "Self-Critique:") = 1

\* the critique call failed and the run went on to its end
C36_Witness ==
    /\ Returned
    /\ Outcome(run, "critique") = "raise"
    /\ ErrorsFrom(run, "Self-Critique:") = 1
    /\ Len(run.agent_errors) = 3

(***************************************************************************)
(* C37                                                                     *)
(***************************************************************************)
\* C37: in every returned result agents_successful <= agents_available + 1,
\* and agents_successful exceeds agents_available only when the synthesis
\* stage succeeded; agents_available counts the perplexity, anthropic and
\* openai entries of the registry only, so it is at most 3.
C37_SuccessfulVsAvailable ==
    Returned =>
        /\ Details.agents_successful <= Details.agents_available + 1
        /\ Details.agents_successful > Details.agents_available
              => Outcome(run, "synthesis") = "ok"
        /\ Details.agents_available
              = Cardinality({p \in {"perplexity", "anthropic", "openai"} :
                                api_status[p]})

\* two providers available, three stages succeeded
C37_Witness ==
    /\ Returned
    /\ Details.agents_available = 2
    /\ Details.agents_successful = 3

(***************************************************************************)
(* C38                                                                     *)
(***************************************************************************)
\* 1 if the condition holds, else 0
Ind(b) == IF b THEN 1 ELSE 0

\* C38: in thousandths of a dollar, total_cost = 2*[research ok]
\* + 3*[analysis ok] + 3*[critique call returned] + 3*[refine call
\* returned] + 15*[creative ok] + 3*[synthesis ok]; a run whose critique
\* succeeded and whose refine call failed is charged for the critique
\* although the analysis stays unrefined, and a call that failed to return
\* is never charged.
C38_CostFormula ==
    Returned =>
        /\ Details.total_cost =
              2 * Ind(Outcome(run, "research") = "ok")
                + 3 * Ind(Outcome(run, "analysis") = "ok")
                + 3 * Ind(CallReturned(run, "critique"))
                + 3 * Ind(CallReturned(run, "refine"))
                + 15 * Ind(Outcome(run, "creative") = "ok")
                + 3 * Ind(Outcome(run, "synthesis") = "ok")
        /\ (Outcome(run, "critique") = "ok" /\ Outcome(run, "refine") = "raise")
              => /\ Details.total_cost >= 6
                 /\ ~Contains(result.response, RefinedHeading)

\* only the analysis provider answers: analysis and critique are charged,
\* the refine call raised and is not
C38_Witness ==
    /\ Returned
    /\ Outcome(run, "research") = "none"
    /\ Outcome(run, "critique") = "ok"
    /\ Outcome(run, "refine") = "raise"
    /\ Outcome(run, "creative") = "none"
    /\ Details.total_cost = 6

(***************************************************************************)
(* C32                                                                     *)
(***************************************************************************)
\* C32: provided every dispatched provider call eventually returns or
\* fails, every started run eventually reaches the return step: no
\* cancellation, loop or early exit keeps it from returning.
C32_Terminates == <>Returned

\* the run returned after six calls, the last of which raised
C32_Witness ==
    /\ Returned
    /\ Len(run.returned) = 6
    /\ Outcome(run, "synthesis") = "raise"

(***************************************************************************)
(* C34                                                                     *)
(***************************************************************************)
\* the result with the measured time left out
Timeless(res) == [res EXCEPT !.collaboration_details.processing_time = 0]

DatabaseAction ==
    \/ script.event.kind \in {"login", "verify"}
    \/ /\ script.event.kind = "register"
       /\ script.event.username # "" /\ script.event.email # ""
       /\ script.event.password = script.event.password2
       /\ Len(script.event.password) >= 8

\* C39: across the script runs of one session the database handle is
\* non-None only on the first run: every run that finds the key 'db' in the
\* session state resets the handle to None, so an action handled on a
\* rerun (login, registration, MFA verification) sees no database.
C39_DbOnlyOnFirstRun ==
    /\ ~session_state.db.is_none =>
          /\ script.runs = 1
          /\ script.DATABASE_AVAILABLE
    /\ script.runs >= 2 => session_state.db.is_none
    /\ DatabaseAction =>
          /\ script.runs >= 2
          /\ script.shown \in {"Database not available", "Invalid code"}
          /\ script.users = InitialUsers
          /\ ~session_state.authenticated
          /\ ~session_state.mfa_pending

\* the database connected on the first run, and the login of alice with
\* her password, handled on the rerun, was refused for want of a database
C39_Witness ==
    /\ script.DATABASE_AVAILABLE /\ script.connects
    /\ script.runs = 2
    /\ script.event.kind = "login"
    /\ script.event.username = "alice"
    /\ script.event.password = GoodPassword
    /\ script.shown = "Database not available"
    /\ session_state.db.is_none

(***************************************************************************)
(* C40                                                                     *)
(***************************************************************************)
\* the user the credentials of the event belong to, if any
Owner(e) ==
    {u \in InitialUsers : /\ u.username = e.username
                          /\ u.is_active
                          /\ checkpw(e.password, u.password_hash)}

\* C40: the session flag authenticated becomes True only in a step where
\* verify_user returned a user whose mfa_enabled is false, or where
\* verify_mfa returned True for the user stored in mfa_temp_user by a
\* successful verify_user; for an MFA-enabled user a correct password alone
\* (the database being installed and connected) sets mfa_pending and
\* mfa_temp_user without authenticating, and Cancel clears mfa_pending and
\* mfa_temp_user without authenticating.
C40_AuthFlow ==
    [][/\ (session_state'.authenticated /\ ~session_state.authenticated) =>
             \/ /\ script'.event.kind = "login"
                /\ \E u \in Owner(script'.event) :
                      /\ ~u.mfa_enabled
                      /\ session_state'.user = UserDict(u)
             \/ /\ script'.event.kind = "verify"
                /\ session_state.mfa_pending
                /\ session_state'.user = session_state.mfa_temp_user
                /\ \E u \in InitialUsers :
                      /\ UserDict(u) = session_state.mfa_temp_user
                      /\ totp_verify(u.mfa_secret, script'.event.code)
       /\ (/\ script'.event.kind = "login"
           /\ script.DATABASE_AVAILABLE /\ script.connects
           /\ \E u \in Owner(script'.event) : u.mfa_enabled) =>
             /\ session_state'.mfa_pending
             /\ \E u \in Owner(script'.event) :
                   session_state'.mfa_temp_user = UserDict(u)
             /\ ~session_state'.authenticated
       /\ script'.event.kind = "cancel" =>
             /\ ~session_state'.mfa_pending
             /\ session_state'.mfa_temp_user.is_none
             /\ session_state'.authenticated = session_state.authenticated
      ]_vars

\* no script run of a session ever sets the flag
C40_NeverAuthenticated ==
    /\ ~session_state.authenticated
    /\ ~session_state.mfa_pending

====
